---- MODULE Spec2Model ----
(***************************************************************************)
(* Bionicsole_lab (MasaCAD front end): the client-side parameter store,    *)
(* the cross-section preview height field (CrossSectionViewer.profileData) *)
(* and the arch-region curve editor.                                       *)
(*                                                                         *)
(* Numbers.  The program computes with IEEE doubles.  Here every length    *)
(* (mm), percentage and ratio is a fixed-point integer holding Unit units  *)
(* per 1.0, quotients are rounded down, and the three non-finite doubles   *)
(* are kept as the values FNaN, FPosInf and FNegInf with the IEEE rules    *)
(* for +, *, /, Math.max and the comparisons.                              *)
(***************************************************************************)
EXTENDS Integers, Sequences, FiniteSets, TLC

\* fixed-point units per 1.0 (1 unit = 0.001 mm, 0.001 %, 0.001 of a ratio)
Unit == 10 * 100

\* the non-finite doubles; every finite value of the model lies strictly between
FPosInf == Unit * Unit * Unit
FNegInf == 0 - FPosInf
FNaN == 2 * FPosInf

IsNaN(a) == a = FNaN
IsInf(a) == a = FPosInf \/ a = FNegInf
IsFinite(a) == ~IsNaN(a) /\ ~IsInf(a)

Sign(a) == IF a > 0 THEN 1 ELSE IF a < 0 THEN -1 ELSE 0
Abs(a) == IF a < 0 THEN 0 - a ELSE a
Min2(a, b) == IF a <= b THEN a ELSE b
Max2(a, b) == IF a >= b THEN a ELSE b

\* a + b on doubles
FAdd(a, b) ==
    IF IsNaN(a) \/ IsNaN(b) THEN FNaN
    ELSE IF IsInf(a) /\ IsInf(b) THEN (IF a = b THEN a ELSE FNaN)
    ELSE IF IsInf(a) THEN a
    ELSE IF IsInf(b) THEN b
    ELSE a + b

\* a * b on doubles (both operands carry Unit, so does the result)
FMul(a, b) ==
    IF IsNaN(a) \/ IsNaN(b) THEN FNaN
    ELSE IF IsInf(a) \/ IsInf(b)
         THEN (IF a = 0 \/ b = 0 THEN FNaN
               ELSE IF Sign(a) * Sign(b) > 0 THEN FPosInf ELSE FNegInf)
    ELSE (a * b) \div Unit

\* a / b on doubles: x/0 is +-Infinity, 0/0 is NaN
FDiv(a, b) ==
    IF IsNaN(a) \/ IsNaN(b) THEN FNaN
    ELSE IF IsInf(a) /\ IsInf(b) THEN FNaN
    ELSE IF IsInf(a) THEN (IF Sign(a) * (IF b < 0 THEN -1 ELSE 1) > 0 THEN FPosInf ELSE FNegInf)
    ELSE IF IsInf(b) THEN 0
    ELSE IF b = 0 THEN (IF a = 0 THEN FNaN ELSE IF a > 0 THEN FPosInf ELSE FNegInf)
    ELSE (a * Unit) \div b

\* Math.max(a, b): NaN if either argument is NaN
FMax(a, b) == IF IsNaN(a) \/ IsNaN(b) THEN FNaN ELSE Max2(a, b)

\* a > b, a < b, a >= b on doubles: false as soon as one side is NaN
FGt(a, b) == ~IsNaN(a) /\ ~IsNaN(b) /\ a > b
FLt(a, b) == ~IsNaN(a) /\ ~IsNaN(b) /\ a < b
FGe(a, b) == ~IsNaN(a) /\ ~IsNaN(b) /\ a >= b

\* Math.round(v * 10) / 10 on a finite height: to the nearest 0.1, halves up
Round01(v) == ((v + (Unit \div 20)) \div (Unit \div 10)) * (Unit \div 10)

\* piecewise-linear reading of a table of f(k/8), k = 0 .. Len-1, at t (Unit per 1.0)
Interp8(table, t) ==
    LET k == (t * 8) \div Unit
        r == t * 8 - k * Unit
    IN  IF k + 1 >= Len(table) THEN table[Len(table)]
        ELSE table[k + 1] + ((table[k + 2] - table[k + 1]) * r) \div Unit

\* x^0.6 at x = k/8, k = 0..16
Pow06Table == << 0, 287, 435, 555, 660, 754, 841, 923, 1000,
                 1073, 1143, 1211, 1275, 1338, 1399, 1458, 1516 >>

\* Math.pow(x, 0.6) for x >= 0
Pow06(x) ==
    IF IsNaN(x) THEN FNaN
    ELSE IF x = FPosInf THEN FPosInf
    ELSE Interp8(Pow06Table, x)

\* 0.5 * (1 + cos(pi * k/8)), k = 0..8
CosTable == << 1000, 962, 854, 691, 500, 309, 146, 38, 0 >>

(***************************************************************************)
(* Points, curves and the outline                                          *)
(***************************************************************************)
Pt(px, py) == [x |-> px, y |-> py]

SeqMin(s) == CHOOSE m \in {s[i] : i \in 1..Len(s)} : \A i \in 1..Len(s) : m <= s[i]
SeqMax(s) == CHOOSE m \in {s[i] : i \in 1..Len(s)} : \A i \in 1..Len(s) : m >= s[i]
RECURSIVE SeqSum(_)
SeqSum(s) == IF s = <<>> THEN 0 ELSE Head(s) + SeqSum(Tail(s))

\* the outline the outline editor installs when the store has none (mm * Unit):
\* heel at x = 0, toe at x = 100 mm, medial edge at low y
DemoOutline ==
    << Pt(0, 20 * Unit), Pt(20 * Unit, 4 * Unit), Pt(80 * Unit, 0),
       Pt(100 * Unit, 18 * Unit), Pt(84 * Unit, 40 * Unit), Pt(20 * Unit, 36 * Unit) >>

(***************************************************************************)
(* The store (lib/store.ts) and the component state the claims read        *)
(***************************************************************************)
VARIABLES
    baseThickness, heelCupHeight,
    medialWallHeight, medialWallPeakX, lateralWallHeight, lateralWallPeakX,
    activeFootSide, archSettingsRight, archSettingsLeft,
    landmarkConfig, widthConfig,
    archCurves,            \* <<>> for null, <<curves>> otherwise
    outlinePoints,
    xPercent,              \* CrossSectionViewer: useState(50)
    draggingCurve, draggingPointIdx, isDraggingWholeCurve,   \* ArchRegionEditorCanvas
    edits,                 \* number of user edits made so far (bounds the exploration)
    currentStep,           \* store: the wizard step shown
    patients, patientId,   \* store: the patients loaded, the selected one (NoPatient for null)
    draggingIndex,         \* OutlineEditorCanvas: the outline vertex dragged (NoIdx for null)
    generateRequest,       \* the last generation request sent (<<>> for none)
    hollowShell,           \* the last generate_hollow_shell call and its solids (<<>> for none)
    unitCell,              \* the last create_3d_xcell_unit call and its parts (<<>> for none)
    bandSample,            \* the last sample put to an arch's curve band (<<>> for none)
    storeCall,             \* the last call of a store function and what it returned (<<>> for none)
    presets,               \* localStorage: the preset text stored per patient (<<>> for none)
    status,                \* PreviewStep: 'idle' | 'processing' | 'completed' | 'error'
    pollErrorCount,        \* PreviewStep: pollErrorCount.current
    pollingInterval,       \* PreviewStep: pollingInterval.current, the task whose timer it holds
    resultUrls,            \* PreviewStep: the task whose files are offered (<<>> for null)
    currentModelUrl,       \* store: the task whose model is shown (<<>> for null)
    timers,                \* the tasks whose setInterval(pollTask, 500) timer is running
    generating,            \* the generations whose generateInsole call has not returned
    inFlight,              \* per task, the getTaskStatus calls that have not returned
    backend,               \* per task, the status the backend reports
    generations,           \* number of handleGenerate calls made so far
    pollLog,               \* outcome of the last status response handled, and the
                           \* failed ones handled in a row since the last success
    densified              \* the last densify call and its results (<<>> for none)

storeVars == << baseThickness, heelCupHeight, medialWallHeight, medialWallPeakX,
                lateralWallHeight, lateralWallPeakX, activeFootSide,
                archSettingsRight, archSettingsLeft, landmarkConfig, widthConfig,
                archCurves, outlinePoints >>
dragVars == << draggingCurve, draggingPointIdx, isDraggingWholeCurve >>
wizardVars == << currentStep, patients, patientId, draggingIndex, generateRequest >>
previewVars == << status, pollErrorCount, pollingInterval, resultUrls, currentModelUrl,
                  timers, generating, inFlight, backend, generations, pollLog >>
callVars == << hollowShell, unitCell, bandSample, storeCall, presets, previewVars, densified >>
vars == << storeVars, xPercent, dragVars, edits, wizardVars, callVars >>

\* no curve / no point is being dragged (null)
NoDrag == "none"
NoIdx == 0 - 1
\* no patient is selected (null)
NoPatient == "none"

\* generations explored, and status requests allowed in flight at once
MaxGenerations == 3
MaxInFlight == 2
\* a task is named by the number of the generation that started it
TaskIds == 1..MaxGenerations
\* pollingInterval.current = null
NoTimer == 0

\* STEPS of lib/store.ts
STEPS == [ PATIENT |-> 0, OUTLINE |-> 1, LANDMARKS |-> 2, SHAPE |-> 3,
           ARCH_REGION |-> 4, ARCH_HEIGHT |-> 5, PREVIEW |-> 6 ]

DEFAULT_ARCH_SETTINGS ==
    [ medial_start |-> 15 * Unit, medial_peak |-> 43 * Unit, medial_end |-> 70 * Unit,
      medial_height |-> 0,
      lateral_start |-> 20 * Unit, lateral_peak |-> 32 * Unit + Unit \div 2,
      lateral_end |-> 45 * Unit, lateral_height |-> 0,
      transverse_start |-> 43 * Unit, transverse_peak |-> 59 * Unit,
      transverse_end |-> 75 * Unit, transverse_height |-> 0,
      medial_y_start |-> 65 * Unit, medial_y_end |-> 100 * Unit,
      lateral_y_start |-> 0, lateral_y_end |-> 25 * Unit,
      transverse_y_start |-> 20 * Unit, transverse_y_end |-> 70 * Unit,
      \* optional fields of the settings object, absent in the defaults:
      \* FALSE stands for undefined (?? false), <<>> for undefined (?? [0,0,0,0])
      medial_detail_enabled |-> FALSE, medial_detail_heights |-> <<>>,
      transverse_detail_enabled |-> FALSE, transverse_detail_heights |-> <<>> ]

DefaultLandmarks ==
    [ arch_start |-> 15 * Unit, lateral_arch_start |-> 20 * Unit, subtalar |-> 30 * Unit,
      navicular |-> 43 * Unit, cuboid |-> 45 * Unit, medial_cuneiform |-> 55 * Unit,
      metatarsal |-> 70 * Unit ]

DefaultWidth == [ ray5_boundary |-> 25 * Unit, ray1_boundary |-> 65 * Unit ]

\* create<State>(...): the initial store, and the components' initial useState values
Init ==
    /\ baseThickness = 3 * Unit
    /\ heelCupHeight = 3 * Unit
    /\ medialWallHeight = 6 * Unit
    /\ medialWallPeakX = 43 * Unit
    /\ lateralWallHeight = 3 * Unit
    /\ lateralWallPeakX = 30 * Unit
    /\ activeFootSide = "right"
    /\ archSettingsRight = DEFAULT_ARCH_SETTINGS
    /\ archSettingsLeft = DEFAULT_ARCH_SETTINGS
    /\ landmarkConfig = DefaultLandmarks
    /\ widthConfig = DefaultWidth
    /\ archCurves = <<>>
    /\ outlinePoints = <<>>
    /\ xPercent = 50 * Unit
    /\ draggingCurve = NoDrag
    /\ draggingPointIdx = NoIdx
    /\ isDraggingWholeCurve = FALSE
    /\ edits = 0
    /\ currentStep = STEPS.PATIENT
    /\ patients = {}
    /\ patientId = NoPatient
    /\ draggingIndex = NoIdx
    /\ generateRequest = <<>>
    /\ hollowShell = <<>>
    /\ unitCell = <<>>
    /\ bandSample = <<>>
    /\ storeCall = <<>>
    /\ presets = [ pid \in { "p1", "p2" } |-> <<>> ]
    /\ status = "idle"
    /\ pollErrorCount = 0
    /\ pollingInterval = NoTimer
    /\ resultUrls = <<>>
    /\ currentModelUrl = <<>>
    /\ timers = {}
    /\ generating = {}
    /\ inFlight = [ t \in TaskIds |-> 0 ]
    /\ backend = [ t \in TaskIds |-> "none" ]
    /\ generations = 0
    /\ pollLog = [ last |-> "none", failures |-> 0 ]
    /\ densified = <<>>

\* const archSettings = activeFootSide === 'right' ? archSettingsRight : archSettingsLeft
SettingsOf(side) == IF side = "right" THEN archSettingsRight ELSE archSettingsLeft
archSettings == SettingsOf(activeFootSide)
isRightFoot == activeFootSide = "right"

\* settings.x_detail_heights ?? [0, 0, 0, 0]
HeightsOr0(h) == IF h = <<>> THEN << 0, 0, 0, 0 >> ELSE h

\* a || d on a number: the default replaces 0
OrDefault(a, d) == IF a = 0 THEN d ELSE a

\* Math.min(a, b): NaN if either argument is NaN
FMin(a, b) == IF IsNaN(a) \/ IsNaN(b) THEN FNaN ELSE Min2(a, b)

(***************************************************************************)
(* CrossSectionViewer: the functions of the height field                   *)
(***************************************************************************)
\* number of Y steps of a cross section (samples 0 .. resolution)
resolution == 200

smoothstep(t) ==
    LET clamped == Max2(0, Min2(Unit, t))
    IN  (((clamped * clamped) \div Unit) * (3 * Unit - 2 * clamped)) \div Unit

cosineInterp(t) ==
    LET clamped == Max2(0, Min2(Unit, t))
    IN  Interp8(CosTable, clamped)

\* targetX <= c, read at the point targetX + d * epsilon for an infinitesimal
\* epsilon > 0: d = 0 is the point itself, d = -1 / +1 its left / right side
LeqAt(x, d, c) == x < c \/ (x = c /\ d <= 0)

\* getWallHeight at targetX + d * epsilon; every branch is continuous in
\* targetX, so the one-sided limit is the branch formula at targetX
getWallHeightAt(targetX, d, peakX, maxH, startX, endX) ==
    LET heelHeight == heelCupHeight + baseThickness \div 2
    IN  IF LeqAt(targetX, d, startX) THEN heelHeight
        ELSE IF LeqAt(targetX, d, peakX)
             THEN IF peakX > startX
                  THEN heelHeight
                       + FMul(maxH - heelHeight, smoothstep(FDiv(targetX - startX, peakX - startX)))
                  ELSE maxH
        ELSE IF LeqAt(targetX, d, endX)
             THEN IF endX > peakX
                  THEN FMul(maxH, cosineInterp(FDiv(targetX - peakX, endX - peakX)))
                  ELSE 0
        ELSE 0

getWallHeight(targetX, peakX, maxH, startX, endX) ==
    getWallHeightAt(targetX, 0, peakX, maxH, startX, endX)

\* getArchHAtX without the descent after the peak and without the end bound
getArchHAtXPlateau(targetX, start, peak, end, maxH) ==
    IF targetX <= start THEN 0
    ELSE IF targetX <= peak
         THEN FMul(maxH, smoothstep(FDiv(targetX - start, peak - start)))
         ELSE maxH

getArchHAtX(targetX, start, peak, end, maxH) ==
    IF targetX <= start \/ targetX >= end THEN 0
    ELSE IF targetX <= peak
         THEN FMul(maxH, smoothstep(FDiv(targetX - start, peak - start)))
         ELSE FMul(maxH, Unit - smoothstep(FDiv(targetX - peak, end - peak)))

bellCurveH(x, start, peak, end, maxH) ==
    IF x <= start \/ x >= end THEN 0
    ELSE IF x <= peak
         THEN FMul(maxH, smoothstep(FDiv(x - start, peak - start)))
         ELSE FMul(maxH, Unit - smoothstep(FDiv(x - peak, end - peak)))

\* the interval search and the Catmull-Rom / Hermite evaluation that
\* evaluateDetailArch and evaluateTransverseDetail share, on six control
\* points xs, ys (xs[1] = start, xs[6] = end; JS index k is k + 1 here)
detailSpline(xs, ys, x) ==
    IF x <= xs[1] \/ x >= xs[6] THEN 0
    ELSE
    LET brk == {k \in 0..3 : x <= xs[k + 2]}
        i == IF brk = {} THEN 4 ELSE CHOOSE k \in brk : \A m \in brk : k <= m
        dx == xs[i + 2] - xs[i + 1]
        t == FDiv(x - xs[i + 1], dx)
        m1 == IF i > 0 THEN FMul(FDiv(ys[i + 2] - ys[i], xs[i + 2] - xs[i]), dx) ELSE 0
        m2 == IF i < 4 THEN FMul(FDiv(ys[i + 3] - ys[i + 1], xs[i + 3] - xs[i + 1]), dx) ELSE 0
        t2 == (t * t) \div Unit
        t3 == (t2 * t) \div Unit
        h00 == 2 * t3 - 3 * t2 + Unit
        h10 == t3 - 2 * t2 + t
        h01 == 3 * t2 - 2 * t3
        h11 == t3 - t2
    IN  IF dx <= 0 THEN ys[i + 1]
        ELSE FMax(0, FAdd(FAdd(FMul(h00, ys[i + 1]), FMul(h10, m1)),
                          FAdd(FMul(h01, ys[i + 2]), FMul(h11, m2))))

\* the control positions of the medial detail spline
medialDetailXs(s) ==
    LET sub == landmarkConfig.subtalar
        nav == landmarkConfig.navicular
        cun == landmarkConfig.medial_cuneiform
        m5 == (cun + (landmarkConfig.metatarsal + Unit)) \div 2
    IN  << s.medial_start, sub, nav, cun, m5, s.medial_end >>

evaluateDetailArch(s, x) ==
    LET heights == HeightsOr0(s.medial_detail_heights)
        ys == << 0, heights[1], heights[2], heights[3], heights[4], 0 >>
    IN  detailSpline(medialDetailXs(s), ys, x)

\* the control positions of the transverse detail spline (landmarks clamped
\* into [start + 0.5, end - 0.5])
transverseDetailXs(s) ==
    LET lo == s.transverse_start + Unit \div 2
        hi == s.transverse_end - Unit \div 2
        nav == Max2(lo, Min2(hi, landmarkConfig.navicular))
        cun == Max2(lo, Min2(hi, landmarkConfig.medial_cuneiform))
        met == Max2(lo, Min2(hi, landmarkConfig.metatarsal))
        mt == Max2(lo, Min2(hi, (cun + met) \div 2))
    IN  << s.transverse_start, nav, cun, mt, met, s.transverse_end >>

evaluateTransverseDetail(s, x) ==
    LET heights == HeightsOr0(s.transverse_detail_heights)
        ys == << 0, heights[1], heights[2], heights[3], heights[4], 0 >>
    IN  detailSpline(transverseDetailXs(s), ys, x)

(***************************************************************************)
(* Geometry helpers (geometry-utils and the viewer's own)                  *)
(***************************************************************************)
\* one Catmull-Rom coordinate at t = j / 8:
\* 0.5 * (2 p1 + (-p0 + p2) t + (2 p0 - 5 p1 + 4 p2 - p3) t^2 + (-p0 + 3 p1 - 3 p2 + p3) t^3)
CatmullRom(p0, p1, p2, p3, j) ==
    (1024 * p1 + 64 * j * (p2 - p0) + 8 * j * j * (2 * p0 - 5 * p1 + 4 * p2 - p3)
       + j * j * j * (3 * p1 - p0 - 3 * p2 + p3)) \div 1024

CatmullRomPt(q0, q1, q2, q3, j) ==
    Pt(CatmullRom(q0.x, q1.x, q2.x, q3.x, j), CatmullRom(q0.y, q1.y, q2.y, q3.y, j))

\* densifyClosedPolygon(points) with the default 8 subdivisions
densifyClosedPolygon(points) ==
    IF Len(points) < 3 THEN points
    ELSE LET n == Len(points)
             at(k) == points[(k % n) + 1]
         IN  [ m \in 1..(8 * n) |->
                 LET i == (m - 1) \div 8
                     j == (m - 1) % 8
                 IN  CatmullRomPt(at(i - 1 + n), at(i), at(i + 1), at(i + 2), j) ]

\* densifyOpenCurve(points) with the default 8 subdivisions
densifyOpenCurve(points) ==
    IF Len(points) < 2 THEN points
    ELSE LET n == Len(points)
             extended == << points[1] >> \o points \o << points[n] >>
         IN  [ m \in 1..(8 * (n - 1) + 1) |->
                 IF m = 8 * (n - 1) + 1 THEN points[n]
                 ELSE LET i == (m - 1) \div 8 + 1
                          j == (m - 1) % 8
                      IN  CatmullRomPt(extended[i], extended[i + 1],
                                       extended[i + 2], extended[i + 3], j) ]

\* getBounds(points)
getBounds(points) ==
    IF points = <<>>
    THEN [ minX |-> 0, maxX |-> 100 * Unit, minY |-> 0, maxY |-> 100 * Unit,
           width |-> 100 * Unit, height |-> 100 * Unit ]
    ELSE LET xs == [k \in 1..Len(points) |-> points[k].x]
             ys == [k \in 1..Len(points) |-> points[k].y]
         IN  [ minX |-> SeqMin(xs), maxX |-> SeqMax(xs), minY |-> SeqMin(ys),
               maxY |-> SeqMax(ys), width |-> SeqMax(xs) - SeqMin(xs),
               height |-> SeqMax(ys) - SeqMin(ys) ]

\* the Y at which the edge p1 -> p2 crosses targetX
CrossY(p1, p2, targetX) ==
    p1.y + FMul(p2.y - p1.y, FDiv(targetX - p1.x, p2.x - p1.x))

\* getOutlineYAtX(points, targetX): <<>> for null, <<min, max>> otherwise
getOutlineYAtX(points, targetX) ==
    LET n == Len(points)
        nxt(k) == points[(k % n) + 1]
        hits == { k \in 1..n : \/ (points[k].x <= targetX /\ nxt(k).x > targetX)
                               \/ (nxt(k).x <= targetX /\ points[k].x > targetX) }
        ys == { CrossY(points[k], nxt(k), targetX) : k \in hits }
    IN  IF Cardinality(hits) < 2 THEN <<>>
        ELSE << CHOOSE a \in ys : \A b \in ys : a <= b, CHOOSE a \in ys : \A b \in ys : a >= b >>

\* viewer getYAtX(points, targetX): <<>> for null, <<y>> otherwise
getYAtX(points, targetX) ==
    IF Len(points) < 2 THEN <<>>
    ELSE LET hits == { k \in 1..(Len(points) - 1) :
                         \/ (points[k].x <= targetX /\ points[k + 1].x >= targetX)
                         \/ (points[k].x >= targetX /\ points[k + 1].x <= targetX) }
         IN  IF hits = {} THEN <<>>
             ELSE LET k == CHOOSE a \in hits : \A b \in hits : a <= b
                  IN  IF Abs(points[k + 1].x - points[k].x) < 1 THEN << points[k].y >>
                      ELSE << CrossY(points[k], points[k + 1], targetX) >>

\* viewer getYRangeAtX(points, targetX): <<>> for null, <<min, max>> otherwise
getYRangeAtX(points, targetX) ==
    IF Len(points) < 2 THEN <<>>
    ELSE LET n == Len(points)
             nxt(k) == points[(k % n) + 1]
             hits == { k \in 1..n : \/ (points[k].x <= targetX /\ nxt(k).x > targetX)
                                    \/ (points[k].x >= targetX /\ nxt(k).x < targetX) }
             ys == { CrossY(points[k], nxt(k), targetX) : k \in hits }
         IN  IF Cardinality(hits) < 2 THEN <<>>
             ELSE << CHOOSE a \in ys : \A b \in ys : a <= b,
                     CHOOSE a \in ys : \A b \in ys : a >= b >>

getOutlineBoundsAtX(targetX) == getYRangeAtX(outlinePoints, targetX)

(***************************************************************************)
(* CrossSectionViewer.profileData: the 201 samples of one cross section    *)
(***************************************************************************)
\* archCurves?.name, with <<>> when the curves or the named curve are absent
CurveOf(name) == IF archCurves = <<>> THEN <<>> ELSE archCurves[1][name]

\* the arch pad polygon of the micro-height floor and its Y range at currentX
archPadYRangeAt(currentX) ==
    IF archCurves = <<>> THEN <<>>
    ELSE IF \/ Len(CurveOf("heelBridge")) < 2
            \/ Len(CurveOf("lateralBridge")) < 2
            \/ Len(CurveOf("metatarsalBridge")) < 2 THEN <<>>
    ELSE
    LET smoothHeel == densifyOpenCurve(CurveOf("heelBridge"))
        smoothLateral == densifyOpenCurve(CurveOf("lateralBridge"))
        smoothMeta == densifyOpenCurve(CurveOf("metatarsalBridge"))
        outerStartX == smoothHeel[Len(smoothHeel)].x
        outerEndX == smoothLateral[1].x
        innerStartX == smoothMeta[Len(smoothMeta)].x
        innerEndX == smoothHeel[1].x
        edge(fromX, toX, top) ==
            IF Abs(toX - fromX) > Unit \div 10
            THEN LET sx(k) == fromX + ((toX - fromX) * k) \div 21
                     ok == SelectSeq([k \in 1..20 |-> k],
                                     LAMBDA k : getOutlineBoundsAtX(sx(k)) # <<>>)
                 IN  [ m \in 1..Len(ok) |->
                         Pt(sx(ok[m]), getOutlineBoundsAtX(sx(ok[m]))[IF top THEN 2 ELSE 1]) ]
            ELSE <<>>
        padPoly == smoothHeel \o edge(outerStartX, outerEndX, TRUE) \o smoothLateral
                   \o smoothMeta \o edge(innerStartX, innerEndX, FALSE)
    IN  getYRangeAtX(padPoly, currentX)

\* the test that selects the curve band of a longitudinal arch (lines 454,
\* 485): both the solid and the flat curve have a Y at the cross section
usesCurveBand(solidY, flatY) ==
    solidY # <<>> /\ flatY # <<>>

\* the band of one longitudinal arch at a sample: curve branch when both the
\* solid and the flat curve cross currentX, fallback Y band otherwise
\* (inner = TRUE: medial arch, lines 454-482; FALSE: lateral arch, 485-513)
archBand(inner, solidY, flatY, edgeY, currentY, archYRatio, yStart, yEnd, archV, before) ==
    IF usesCurveBand(solidY, flatY)
    THEN LET flatMin == Min2(flatY[1], edgeY)
             flatMax == Max2(flatY[1], edgeY)
             denom == flatY[1] - solidY[1]
             t == FDiv(currentY - solidY[1], denom)
         IN  IF currentY >= flatMin /\ currentY <= flatMax THEN FMax(before, archV)
             ELSE IF Abs(denom) > Unit \div 100 /\ t >= 0 /\ t <= Unit
                  THEN FMax(before, FMul(archV, smoothstep(t)))
             ELSE before
    ELSE LET yRange == yEnd - yStart
             factor == IF inner THEN Min2(Unit, FDiv(archYRatio - yStart, yRange))
                       ELSE Max2(0, Unit - FDiv(archYRatio - yStart, yRange))
             inBand == IF inner THEN archYRatio >= yStart ELSE archYRatio <= yEnd
         IN  IF ~inBand THEN before
             ELSE IF yRange > 0 THEN FMax(before, FMul(archV, factor))
             ELSE FMax(before, archV)

\* archInnerAt with the bell curve scaled by the medial wall height
archInnerAtWallHeight(s, xp) ==
    IF s.medial_detail_enabled THEN evaluateDetailArch(s, xp)
    ELSE getArchHAtX(xp, s.medial_start, s.medial_peak, s.medial_end, medialWallHeight)

\* the medial arch height at the cross section (lines 331-333): the detail
\* spline when detail mode is on, the bell curve otherwise
archInnerAt(s, xp) ==
    IF s.medial_detail_enabled THEN evaluateDetailArch(s, xp)
    ELSE getArchHAtX(xp, s.medial_start, s.medial_peak, s.medial_end, s.medial_height)

\* archYRatioAt without the flip for the right foot
archYRatioAtUnflipped(right, yRatio) ==
    yRatio

\* archYRatio of a sample (line 438): 1 = medial edge, 0 = lateral edge
archYRatioAt(right, yRatio) ==
    IF right THEN Unit - yRatio ELSE yRatio

\* totalHAt as "baseThickness + max(baseThickness, blended)"
totalHAtDoubleBase(blendedHeight) ==
    FAdd(baseThickness, FMax(baseThickness, blendedHeight))

\* the total height of a sample (lines 609-610)
totalHAt(blendedHeight) ==
    LET totalH0 == FAdd(baseThickness, blendedHeight)
    IN  IF FLt(totalH0, baseThickness) THEN baseThickness ELSE totalH0

\* profileData for the settings s of a foot side (right = isRightFoot) at the
\* cross section xp: sample index -> the values computed for that sample
profileDataFor(s, right, xp) ==
    LET medialStart == OrDefault(landmarkConfig.arch_start, 15 * Unit)
        lateralStart == OrDefault(landmarkConfig.lateral_arch_start, 20 * Unit)
        metatarsal == OrDefault(landmarkConfig.metatarsal, 70 * Unit)
        cuboid == OrDefault(landmarkConfig.cuboid, 45 * Unit)
        innerWallH == getWallHeight(xp, medialWallPeakX, medialWallHeight, medialStart, metatarsal)
        outerWallH == getWallHeight(xp, lateralWallPeakX, lateralWallHeight, lateralStart, cuboid)
        archInner == archInnerAt(s, xp)
        archOuter == getArchHAtX(xp, s.lateral_start, s.lateral_peak, s.lateral_end,
                                 s.lateral_height)
        archTransverseRaw ==
            IF s.transverse_detail_enabled THEN evaluateTransverseDetail(s, xp)
            ELSE getArchHAtX(xp, s.transverse_start, s.transverse_peak, s.transverse_end,
                             s.transverse_height)
        maxTransH == s.transverse_height
        archTransverse == IF FGt(archTransverseRaw, 0) /\ maxTransH > 0
                          THEN FMul(maxTransH, Pow06(FDiv(archTransverseRaw, maxTransH)))
                          ELSE archTransverseRaw
        heelCupProfile == IF xp <= 20 * Unit
                          THEN FMul(heelCupHeight, Unit - FDiv(xp, 40 * Unit)) ELSE 0
        hasOutline == Len(outlinePoints) > 0
        b == getBounds(outlinePoints)
        minX == IF hasOutline THEN b.minX ELSE 0
        maxX == IF hasOutline THEN b.maxX ELSE 260 * Unit
        minY == IF hasOutline THEN b.minY ELSE 0
        maxY == IF hasOutline THEN b.maxY ELSE 80 * Unit
        currentX == minX + FMul(maxX - minX, xp \div 100)
        medialSolidY == getYAtX(CurveOf("medial"), currentX)
        medialFlatY == getYAtX(CurveOf("medialFlat"), currentX)
        lateralSolidY == getYAtX(CurveOf("lateral"), currentX)
        lateralFlatY == getYAtX(CurveOf("lateralFlat"), currentX)
        transverseRange == IF CurveOf("transverse") = <<>> THEN <<>>
                           ELSE getYRangeAtX(densifyClosedPolygon(CurveOf("transverse")), currentX)
        outlineBounds == getOutlineBoundsAtX(currentX)
        currentYMin == IF outlineBounds # <<>> THEN outlineBounds[1] ELSE minY
        currentYMax == IF outlineBounds # <<>> THEN outlineBounds[2] ELSE maxY
        currentWidth == currentYMax - currentYMin
        distHeel == FMul(xp \div 100, maxX - minX)
        archPadYRange == archPadYRangeAt(currentX)
        mirrorY(y) == IF y = <<>> THEN <<>>
                      ELSE IF ~right THEN << currentYMin + currentYMax - y[1] >> ELSE y
        medialSolidYMirrored == mirrorY(medialSolidY)
        medialFlatYMirrored == mirrorY(medialFlatY)
        lateralSolidYMirrored == mirrorY(lateralSolidY)
        lateralFlatYMirrored == mirrorY(lateralFlatY)
        transverseRangeMirrored ==
            IF transverseRange # <<>> /\ ~right
            THEN << currentYMin + currentYMax - transverseRange[2],
                    currentYMin + currentYMax - transverseRange[1] >>
            ELSE transverseRange
        medialEdge == IF right THEN currentYMin ELSE currentYMax
        lateralEdge == IF right THEN currentYMax ELSE currentYMin
    IN
    [ i \in 0..resolution |->
        LET yRatio == (i * Unit) \div resolution
            currentY == currentYMin + FMul(yRatio, currentWidth)
            archYRatio == archYRatioAt(right, yRatio)
            heelCupRegion == FMul(lateralStart, Unit - archYRatio) + FMul(medialStart, archYRatio)
            afterMedial == archBand(TRUE, medialSolidYMirrored, medialFlatYMirrored, medialEdge,
                                    currentY, archYRatio, s.medial_y_start \div 100,
                                    s.medial_y_end \div 100, archInner, 0)
            longitudinalArchHeight ==
                archBand(FALSE, lateralSolidYMirrored, lateralFlatYMirrored, lateralEdge,
                         currentY, archYRatio, s.lateral_y_start \div 100,
                         s.lateral_y_end \div 100, archOuter, afterMedial)
            transverseArchHeight ==
                IF transverseRangeMirrored # <<>>
                THEN LET lo == transverseRangeMirrored[1]
                         hi == transverseRangeMirrored[2]
                         center == (lo + hi) \div 2
                         half == (hi - lo) \div 2
                         f == Pow06(Max2(0, Unit - FDiv(Abs(currentY - center), half)))
                     IN  IF currentY >= lo /\ currentY <= hi /\ half > 0
                         THEN FMul(archTransverse, smoothstep(smoothstep(f)))
                         ELSE 0
                ELSE LET transverseYStart == s.transverse_y_start \div 100
                         transverseYEnd == s.transverse_y_end \div 100
                         center == (transverseYStart + transverseYEnd) \div 2
                         halfRange == (transverseYEnd - transverseYStart) \div 2
                         centerDist == Abs(archYRatio - center)
                         transverseFactor ==
                             smoothstep(smoothstep(Pow06(Max2(0, Unit - FDiv(centerDist, halfRange)))))
                     IN  IF /\ FGt(archTransverse, 0)
                            /\ archYRatio >= transverseYStart /\ archYRatio <= transverseYEnd
                            /\ halfRange > 0
                         THEN FMul(archTransverse, transverseFactor)
                         ELSE 0
            archH0 == FMax(longitudinalArchHeight, transverseArchHeight)
            microHeightX == FMax(FMax(archInner, archOuter), archTransverse)
            maxArchH == Max2(Max2(s.medial_height, s.lateral_height), Unit \div 100)
            normalized == FMin(Unit, FDiv(microHeightX, maxArchH))
            distToEdge == Min2(currentY - archPadYRange[1], archPadYRange[2] - currentY)
            microH == IF distToEdge > 0 /\ distToEdge < 3 * Unit
                      THEN FMul(FMul(4 * (Unit \div 10), normalized),
                                smoothstep(FDiv(distToEdge, 3 * Unit)))
                      ELSE IF distToEdge <= 0 THEN 0
                      ELSE FMul(4 * (Unit \div 10), normalized)
            inPad == /\ archPadYRange # <<>>
                     /\ currentY >= archPadYRange[1] /\ currentY <= archPadYRange[2]
            archH == IF inPad /\ FGt(microHeightX, 0) THEN FMax(archH0, microH) ELSE archH0
            wallH0 == FMul(outerWallH, Unit - archYRatio) + FMul(innerWallH, archYRatio)
            distFromOuter == Abs(currentY - lateralEdge)
            distFromInner == Abs(currentY - medialEdge)
            distFromEdge == Min2(distFromInner, distFromOuter)
            yBlend == IF distFromEdge < Unit \div 2 THEN 0
                      ELSE IF distFromEdge < 10 * Unit
                           THEN smoothstep(Min2(Unit, Max2(0,
                                    FDiv(distFromEdge - Unit \div 2, 10 * Unit - Unit \div 2))))
                      ELSE Unit
            xBlend == IF xp <= heelCupRegion /\ distHeel < 10 * Unit
                      THEN IF distHeel < Unit \div 2 THEN 0
                           ELSE smoothstep(Min2(Unit, Max2(0,
                                    FDiv(distHeel - Unit \div 2, 10 * Unit - Unit \div 2))))
                      ELSE Unit
            blend == Min2(yBlend, xBlend)
            wallH == IF xp <= heelCupRegion
                     THEN wallH0 + FMul(heelCupProfile, Unit - FDiv(xp, heelCupRegion))
                     ELSE wallH0
            blendedHeight == FAdd(FMul(wallH, Unit - blend), FMul(archH, blend))
            totalH == totalHAt(blendedHeight)
        IN  [ yPct |-> (i * 100 * Unit) \div resolution, h |-> totalH,
              archYRatio |-> archYRatio, currentY |-> currentY,
              longitudinalArchHeight |-> longitudinalArchHeight,
              transverseArchHeight |-> transverseArchHeight,
              archH |-> archH, wallH |-> wallH, yBlend |-> yBlend, xBlend |-> xBlend,
              blend |-> blend, blendedHeight |-> blendedHeight,
              innerWallH |-> innerWallH, outerWallH |-> outerWallH,
              heelCupAdd |-> wallH - wallH0, archInner |-> archInner,
              archOuter |-> archOuter, archTransverse |-> archTransverse,
              archPadYRange |-> archPadYRange, currentX |-> currentX,
              medialSolidY |-> medialSolidY, medialFlatY |-> medialFlatY,
              lateralSolidY |-> lateralSolidY, lateralFlatY |-> lateralFlatY,
              transverseRange |-> transverseRange,
              medialFallback |-> ~usesCurveBand(medialSolidYMirrored, medialFlatYMirrored),
              lateralFallback |-> ~usesCurveBand(lateralSolidYMirrored, lateralFlatYMirrored),
              medialEdge |-> medialEdge,
              lateralEdge |-> lateralEdge, usesPolygon |-> transverseRangeMirrored # <<>> ] ]


\* the profile on screen
profileData == profileDataFor(archSettings, isRightFoot, xPercent)

(***************************************************************************)
(* User inputs explored                                                    *)
(***************************************************************************)
\* user edits explored from the initial store
MaxEdits == 2

FootSides == { "right", "left" }
\* positions of the cross-section slider (integer percent, 0..100)
XValues == { 0, 20 * Unit, 43 * Unit, 50 * Unit, 69 * Unit, 100 * Unit }
\* arch height sliders (0..10 mm)
ArchHeightFields == { "medial_height", "transverse_height", "lateral_height" }
ArchHeightValues == { 0, 4 * Unit }
\* heights dragged in the detail height editors
DetailDragValues == { 0, 3 * Unit }
\* landmark slider edits (0..100 %, step 0.5)
LandmarkEdits == { << "navicular", 15 * Unit >>, << "metatarsal", 43 * Unit >> }
BaseThicknessValues == { 2 * Unit, 3 * Unit }
HeelCupHeightValues == { 0, 3 * Unit }
MedialWallHeightValues == { 0, 6 * Unit }
LateralWallHeightValues == { 3 * Unit, 8 * Unit }
MedialWallPeakValues == { 5 * Unit, 43 * Unit, 80 * Unit }
LateralWallPeakValues == { 10 * Unit, 30 * Unit }

(***************************************************************************)
(* Store actions and the handlers of the cross-section viewer              *)
(***************************************************************************)
\* { ...r, ...u }
Merge(r, u) == [ k \in DOMAIN r |-> IF k \in DOMAIN u THEN u[k] ELSE r[k] ]

\* updateArchSettings(side, settings) with the merged settings given
updateArchSettings(side, merged) ==
    /\ archSettingsRight' = IF side = "right" THEN merged ELSE archSettingsRight
    /\ archSettingsLeft' = IF side = "right" THEN archSettingsLeft ELSE merged

\* the bell-curve heights at the four medial landmarks, rounded to 0.1 mm
medialBellHeights(s) ==
    LET sub == landmarkConfig.subtalar
        nav == landmarkConfig.navicular
        cun == landmarkConfig.medial_cuneiform
        mb1Pct == landmarkConfig.metatarsal + Unit
        m5Pct == (cun + mb1Pct) \div 2
        at(x) == Round01(bellCurveH(x, s.medial_start, s.medial_peak, s.medial_end,
                                    s.medial_height))
    IN  << at(sub), at(nav), at(cun), at(m5Pct) >>

\* the bell-curve heights at the four transverse landmarks, rounded to 0.1 mm
transverseBellHeights(s) ==
    LET nav == landmarkConfig.navicular
        cun == landmarkConfig.medial_cuneiform
        met == landmarkConfig.metatarsal
        mt == (cun + met) \div 2
        at(x) == Round01(bellCurveH(x, s.transverse_start, s.transverse_peak,
                                    s.transverse_end, s.transverse_height))
    IN  << at(nav), at(cun), at(mt), at(met) >>

AllZero(h) == \A k \in 1..Len(h) : h[k] = 0

\* the two effects of the viewer that follow a change of the settings of the
\* side on screen: detail heights are recomputed from the bell curve when
\* detail mode is on and height, start, peak or end changed
detailEffects(prev, cur) ==
    LET m == IF /\ cur.medial_detail_enabled
                /\ ~ ( /\ prev.medial_height = cur.medial_height
                       /\ prev.medial_start = cur.medial_start
                       /\ prev.medial_peak = cur.medial_peak
                       /\ prev.medial_end = cur.medial_end )
             THEN Merge(cur, [ medial_detail_heights |-> medialBellHeights(cur) ])
             ELSE cur
    IN  IF /\ cur.transverse_detail_enabled
           /\ ~ ( /\ prev.transverse_height = cur.transverse_height
                  /\ prev.transverse_start = cur.transverse_start
                  /\ prev.transverse_peak = cur.transverse_peak
                  /\ prev.transverse_end = cur.transverse_end )
        THEN Merge(m, [ transverse_detail_heights |-> transverseBellHeights(cur) ])
        ELSE m

Edit == edits < MaxEdits /\ edits' = edits + 1

SetXPercent(v) ==
    /\ xPercent' = v
    /\ UNCHANGED << storeVars, dragVars, edits, wizardVars, callVars >>

SetActiveFootSide(side) ==
    /\ activeFootSide' = side
    /\ UNCHANGED << baseThickness, heelCupHeight, medialWallHeight, medialWallPeakX,
                    lateralWallHeight, lateralWallPeakX, archSettingsRight, archSettingsLeft,
                    landmarkConfig, widthConfig, wizardVars, callVars, archCurves, outlinePoints,
                    xPercent, dragVars, edits >>

\* the store fields no arch-settings handler touches
NonArchUnchanged ==
    UNCHANGED << baseThickness, heelCupHeight, medialWallHeight, medialWallPeakX,
                 lateralWallHeight, lateralWallPeakX, activeFootSide, landmarkConfig,
                 widthConfig, wizardVars, callVars, archCurves, outlinePoints, xPercent, dragVars >>

\* an arch height slider of the sidebar, followed by the viewer's effects
SetArchHeight(field, v) ==
    /\ Edit
    /\ updateArchSettings(activeFootSide,
          detailEffects(archSettings, Merge(archSettings, [ k \in {field} |-> v ])))
    /\ NonArchUnchanged

handleDetailToggle(enabled) ==
    /\ Edit
    /\ IF ~enabled
       THEN updateArchSettings(activeFootSide,
                Merge(archSettings, [ medial_detail_enabled |-> FALSE ]))
       ELSE IF AllZero(HeightsOr0(archSettings.medial_detail_heights))
       THEN updateArchSettings(activeFootSide,
                Merge(archSettings, [ medial_detail_enabled |-> TRUE,
                                      medial_detail_heights |-> medialBellHeights(archSettings) ]))
       ELSE updateArchSettings(activeFootSide,
                Merge(archSettings, [ medial_detail_enabled |-> TRUE ]))
    /\ NonArchUnchanged

handleTransverseDetailToggle(enabled) ==
    /\ Edit
    /\ IF ~enabled
       THEN updateArchSettings(activeFootSide,
                Merge(archSettings, [ transverse_detail_enabled |-> FALSE ]))
       ELSE IF AllZero(HeightsOr0(archSettings.transverse_detail_heights))
       THEN updateArchSettings(activeFootSide,
                Merge(archSettings, [ transverse_detail_enabled |-> TRUE,
                         transverse_detail_heights |-> transverseBellHeights(archSettings) ]))
       ELSE updateArchSettings(activeFootSide,
                Merge(archSettings, [ transverse_detail_enabled |-> TRUE ]))
    /\ NonArchUnchanged

\* a drag in the medial detail height editor: point idx to v mm (clamped to maxH)
MedialDetailDrag(idx, v) ==
    /\ archSettings.medial_detail_enabled
    /\ Edit
    /\ LET maxH == Max2(10 * Unit, archSettings.medial_height + 2 * Unit)
           mm == Round01(Max2(0, Min2(maxH, v)))
           newH == [ HeightsOr0(archSettings.medial_detail_heights) EXCEPT ![idx] = mm ]
       IN  updateArchSettings(activeFootSide,
               Merge(archSettings, [ medial_detail_heights |-> newH ]))
    /\ NonArchUnchanged

\* a drag in the transverse detail height editor
TransverseDetailDrag(idx, v) ==
    /\ archSettings.transverse_detail_enabled
    /\ Edit
    /\ LET maxH == Max2(10 * Unit, archSettings.transverse_height + 2 * Unit)
           mm == Round01(Max2(0, Min2(maxH, v)))
           newH == [ HeightsOr0(archSettings.transverse_detail_heights) EXCEPT ![idx] = mm ]
       IN  updateArchSettings(activeFootSide,
               Merge(archSettings, [ transverse_detail_heights |-> newH ]))
    /\ NonArchUnchanged

updateLandmarkPos(id, percent) ==
    /\ Edit
    /\ landmarkConfig' = [ landmarkConfig EXCEPT ![id] = percent ]
    /\ UNCHANGED << baseThickness, heelCupHeight, medialWallHeight, medialWallPeakX,
                    lateralWallHeight, lateralWallPeakX, activeFootSide, archSettingsRight,
                    archSettingsLeft, widthConfig, wizardVars, callVars, archCurves, outlinePoints,
                    xPercent, dragVars >>

setBaseThickness(val) ==
    /\ Edit
    /\ baseThickness' = val
    /\ UNCHANGED << heelCupHeight, medialWallHeight, medialWallPeakX, lateralWallHeight,
                    lateralWallPeakX, activeFootSide, archSettingsRight, archSettingsLeft,
                    landmarkConfig, widthConfig, wizardVars, callVars, archCurves, outlinePoints, xPercent, dragVars >>

setHeelCupHeight(val) ==
    /\ Edit
    /\ heelCupHeight' = val
    /\ UNCHANGED << baseThickness, medialWallHeight, medialWallPeakX, lateralWallHeight,
                    lateralWallPeakX, activeFootSide, archSettingsRight, archSettingsLeft,
                    landmarkConfig, widthConfig, wizardVars, callVars, archCurves, outlinePoints, xPercent, dragVars >>

setMedialWallHeight(val) ==
    /\ Edit
    /\ medialWallHeight' = val
    /\ UNCHANGED << baseThickness, heelCupHeight, medialWallPeakX, lateralWallHeight,
                    lateralWallPeakX, activeFootSide, archSettingsRight, archSettingsLeft,
                    landmarkConfig, widthConfig, wizardVars, callVars, archCurves, outlinePoints, xPercent, dragVars >>

setMedialWallPeakX(val) ==
    /\ Edit
    /\ medialWallPeakX' = val
    /\ UNCHANGED << baseThickness, heelCupHeight, medialWallHeight, lateralWallHeight,
                    lateralWallPeakX, activeFootSide, archSettingsRight, archSettingsLeft,
                    landmarkConfig, widthConfig, wizardVars, callVars, archCurves, outlinePoints, xPercent, dragVars >>

setLateralWallHeight(val) ==
    /\ Edit
    /\ lateralWallHeight' = val
    /\ UNCHANGED << baseThickness, heelCupHeight, medialWallHeight, medialWallPeakX,
                    lateralWallPeakX, activeFootSide, archSettingsRight, archSettingsLeft,
                    landmarkConfig, widthConfig, wizardVars, callVars, archCurves, outlinePoints, xPercent, dragVars >>

setLateralWallPeakX(val) ==
    /\ Edit
    /\ lateralWallPeakX' = val
    /\ UNCHANGED << baseThickness, heelCupHeight, medialWallHeight, medialWallPeakX,
                    lateralWallHeight, activeFootSide, archSettingsRight, archSettingsLeft,
                    landmarkConfig, widthConfig, wizardVars, callVars, archCurves, outlinePoints, xPercent, dragVars >>

(***************************************************************************)
(* ArchRegionEditorCanvas: curve generation                                *)
(***************************************************************************)
\* const bounds = getBounds(outlinePoints)
bounds == getBounds(outlinePoints)

\* bounds.minX + bounds.width * (pct / 100)
PctToX(pct) == bounds.minX + FMul(bounds.width, pct \div 100)

\* yBounds.min + (yBounds.max - yBounds.min) * (1 - rPct / 100)
RayYIn(yBounds, rPct) == yBounds[1] + FMul(yBounds[2] - yBounds[1], Unit - rPct \div 100)

\* getRayY(x, rayType) of the transverse generator: 0 outside the outline
getRayY(x, rayType) ==
    LET yBounds == getOutlineYAtX(outlinePoints, x)
    IN  IF yBounds = <<>> THEN 0
        ELSE IF rayType = "ray1" THEN RayYIn(yBounds, widthConfig.ray1_boundary)
        ELSE RayYIn(yBounds, widthConfig.ray5_boundary)

\* generateInitialCurve('transverse'): 8 control points
\* [pTop, pTR, pRight, pBR, pBottom, pBL, pLeft, pTL]
generateTransverse ==
    LET navicularX == PctToX(landmarkConfig.navicular)
        metatarsalX == PctToX(landmarkConfig.metatarsal)
        centerX == (navicularX + metatarsalX) \div 2
        ray1Y == getRayY(centerX, "ray1")
        ray5Y == getRayY(centerX, "ray5")
        centerY == (ray1Y + ray5Y) \div 2
        metaPlus5X == metatarsalX + FMul(bounds.width, 3 * (Unit \div 100))
        a == (metatarsalX - navicularX) \div 2
        leftMidX == centerX - FMul(a, 707 * (Unit \div 1000))
        metaMinus1X == metatarsalX - FMul(bounds.width, Unit \div 100)
        leftRay5Y == getRayY(leftMidX, "ray5")
        leftRay1Y == getRayY(leftMidX, "ray1")
        leftCenterY == (leftRay1Y + leftRay5Y) \div 2
    IN  << Pt(centerX, ray1Y),
           Pt(metaMinus1X, getRayY(metaMinus1X, "ray1")),
           Pt(metaPlus5X, centerY),
           Pt(metaMinus1X, getRayY(metaMinus1X, "ray5")),
           Pt(centerX, ray5Y),
           Pt(leftMidX, leftRay5Y + FMul(leftCenterY - leftRay5Y, Unit \div 5)),
           Pt(navicularX, (getRayY(navicularX, "ray1") + getRayY(navicularX, "ray5")) \div 2),
           Pt(leftMidX, leftRay1Y + FMul(leftCenterY - leftRay1Y, Unit \div 5)) >>

\* generateInitialCurve('medial' | 'lateral'): 8 resp. 5 control points, or
\* <<>> when the start or the end lies outside the outline
generateArch(type) ==
    LET startPercent == IF type = "medial" THEN landmarkConfig.arch_start
                        ELSE landmarkConfig.lateral_arch_start
        endPercent == IF type = "medial" THEN landmarkConfig.metatarsal
                      ELSE landmarkConfig.cuboid
        startX == PctToX(startPercent)
        endX == PctToX(endPercent)
        startYBounds == getOutlineYAtX(outlinePoints, startX)
        endYBounds == getOutlineYAtX(outlinePoints, endX)
        startP == Pt(startX, IF type = "medial" THEN startYBounds[1] ELSE startYBounds[2])
        endP == Pt(endX, IF type = "medial" THEN endYBounds[1] ELSE endYBounds[2])
        midCunMeta == (landmarkConfig.medial_cuneiform + landmarkConfig.metatarsal) \div 2
        medialXPercents ==
            << landmarkConfig.arch_start,
               (landmarkConfig.arch_start + landmarkConfig.subtalar) \div 2,
               landmarkConfig.subtalar, landmarkConfig.navicular,
               landmarkConfig.medial_cuneiform, midCunMeta,
               (midCunMeta + landmarkConfig.metatarsal) \div 2, landmarkConfig.metatarsal >>
        \* fraction of the way from the outline to Ray 1 (M3: from Ray 1 to Ray 5)
        medialPoint(i) ==
            LET x == PctToX(medialXPercents[i])
                yBounds == getOutlineYAtX(outlinePoints, x)
                outlineY == yBounds[1]
                ray1Y == RayYIn(yBounds, widthConfig.ray1_boundary)
                ray5Y == RayYIn(yBounds, widthConfig.ray5_boundary)
                up(f) == outlineY + FMul(ray1Y - outlineY, f)
            IN  IF yBounds = <<>> THEN Pt(x, (startP.y + endP.y) \div 2)
                ELSE IF i = 2 THEN Pt(x, up(6 * (Unit \div 10)))
                ELSE IF i = 3 \/ i = 5 THEN Pt(x, ray1Y)
                ELSE IF i = 4 THEN Pt(x, ray1Y + FMul(ray5Y - ray1Y, Unit \div 10))
                ELSE IF i = 6 THEN Pt(x, up(7 * (Unit \div 10)))
                ELSE IF i = 7 THEN Pt(x, up(4 * (Unit \div 10)))
                ELSE Pt(x, outlineY)
        stepX == (endX - startX) \div 4
        \* sin(t * pi) at t = 1/4, 2/4, 3/4
        arc == << 707 * (Unit \div 1000), Unit, 707 * (Unit \div 1000) >>
        lateralPoint(i) ==
            LET x == startX + i * stepX
                yBounds == getOutlineYAtX(outlinePoints, x)
                baseY == startP.y + FMul(endP.y - startP.y, (i * Unit) \div 4)
                guideY == RayYIn(yBounds, widthConfig.ray5_boundary)
            IN  IF yBounds = <<>> THEN Pt(x, (startP.y + endP.y) \div 2)
                ELSE Pt(x, baseY + FMul(guideY - baseY, arc[i]))
    IN  IF startYBounds = <<>> \/ endYBounds = <<>> THEN <<>>
        ELSE IF type = "medial" THEN [ i \in 1..8 |-> medialPoint(i) ]
        ELSE << startP, lateralPoint(1), lateralPoint(2), lateralPoint(3), endP >>

\* generateInitialCurve('heelBridge', {medial, lateral})
generateHeelBridge(medialPts, lateralPts) ==
    IF Len(medialPts) = 0 \/ Len(lateralPts) = 0 THEN <<>>
    ELSE LET p0 == medialPts[1]
             p3 == lateralPts[1]
             m1Pct == (landmarkConfig.arch_start + landmarkConfig.subtalar) \div 2
             m1X == PctToX(m1Pct)
             yBounds == getOutlineYAtX(outlinePoints, m1X)
         IN  IF yBounds = <<>> THEN << p0, p3 >>
             ELSE << p0, Pt(m1X, RayYIn(yBounds, widthConfig.ray1_boundary)),
                     Pt(m1X, RayYIn(yBounds, widthConfig.ray5_boundary)), p3 >>

\* generateInitialCurve('lateralBridge', {lateral, transverse})
generateLateralBridge(lateralPts, transversePts) ==
    IF Len(lateralPts) = 0 \/ Len(transversePts) < 5 THEN <<>>
    ELSE LET p0 == lateralPts[Len(lateralPts)]
             p2 == transversePts[5]
             midPct == (landmarkConfig.navicular + landmarkConfig.medial_cuneiform) \div 2
             midX == PctToX(midPct)
             yBoundsB == getOutlineYAtX(outlinePoints, midX)
             ray5Y == RayYIn(yBoundsB, widthConfig.ray5_boundary)
             b1Y == IF yBoundsB # <<>> THEN ray5Y + FMul(yBoundsB[2] - ray5Y, Unit \div 10)
                    ELSE (p0.y + p2.y) \div 2
         IN  << p0, Pt(midX, b1Y), p2 >>

\* generateInitialCurve('metatarsalBridge', {medial, transverse});
\* (dirY / dist) * (dist * 0.6) is 0.6 * dirY, and NaN when T2 = T3 (dist = 0)
generateMetatarsalBridge(medialPts, transversePts) ==
    IF Len(medialPts) < 8 \/ Len(transversePts) < 4 THEN <<>>
    ELSE LET t3 == transversePts[4]
             p0 == transversePts[3]
             p2 == medialPts[8]
             dirX == p0.x - t3.x
             dirY == p0.y - t3.y
             mb1X == PctToX(landmarkConfig.metatarsal) + FMul(bounds.width, Unit \div 100)
             extY == IF dirX = 0 /\ dirY = 0 THEN FNaN
                     ELSE p0.y + FMul(dirY, 6 * (Unit \div 10))
         IN  << p0, Pt(mb1X, FAdd(FMul(extY, Unit \div 2), FMul(p2.y, Unit \div 2))), p2 >>

\* flatSnapY that keeps the solid curve's y
flatSnapYKept(b, direction, y) ==
    y

\* the y of a flat curve's end point: snapped to the outline edge on the
\* curve's side where the outline crosses the end's x (b), else the solid
\* curve's y
flatSnapY(b, direction, y) ==
    IF b = <<>> THEN y
    ELSE IF direction = -1 THEN b[1] ELSE b[2]

\* createFlatCurve(sourcePoints, direction, isClosed)
createFlatCurve(sourcePoints, direction, isClosed) ==
    IF Len(sourcePoints) < 2 THEN <<>>
    ELSE IF isClosed
    THEN LET n == Len(sourcePoints)
             cx == SeqSum([k \in 1..n |-> sourcePoints[k].x]) \div n
             cy == SeqSum([k \in 1..n |-> sourcePoints[k].y]) \div n
             scale == 6 * (Unit \div 10)
         IN  [ k \in 1..n |-> Pt(cx + FMul(sourcePoints[k].x - cx, scale),
                                 cy + FMul(sourcePoints[k].y - cy, scale)) ]
    ELSE LET n == Len(sourcePoints)
             startP == sourcePoints[1]
             endP == sourcePoints[n]
             startX == startP.x
             endX == endP.x
             totalLen == endX - startX
             padding == FMul(totalLen, 5 * (Unit \div 100))
             flatStartX == startX + padding
             flatEndX == endX - padding
             startB == getOutlineYAtX(outlinePoints, flatStartX)
             endB == getOutlineYAtX(outlinePoints, flatEndX)
             startSnapY == flatSnapY(startB, direction, startP.y)
             endSnapY == flatSnapY(endB, direction, endP.y)
             flatPoint(i) ==
                 LET q == sourcePoints[i]
                     t == FDiv(q.x - startX, totalLen)
                     newX == IF i = 1 THEN flatStartX
                             ELSE IF i = n THEN flatEndX
                             ELSE FAdd(flatStartX, FMul(t, flatEndX - flatStartX))
                     yBounds == IF IsFinite(newX) THEN getOutlineYAtX(outlinePoints, newX)
                                ELSE <<>>
                     chordY == startP.y + FMul(endP.y - startP.y, t)
                     newBulge == FMul(q.y - chordY, 6 * (Unit \div 10))
                     t_new == FDiv(newX - flatStartX, flatEndX - flatStartX)
                     newChordY == startSnapY + FMul(endSnapY - startSnapY, t_new)
                 IN  IF yBounds = <<>> THEN Pt(newX, q.y)
                     ELSE IF i = 1 THEN Pt(newX, startSnapY)
                     ELSE IF i = n THEN Pt(newX, endSnapY)
                     ELSE Pt(newX, newChordY + newBulge)
         IN  [ i \in 1..n |-> flatPoint(i) ]

\* the settings syncTransverseToArchSettings(points) writes for side, or the
\* settings unchanged when it returns early
syncTransverseToArchSettings(s, points) ==
    IF Len(points) < 2 \/ bounds.width <= 0 THEN s
    ELSE LET xs == [k \in 1..Len(points) |-> points[k].x]
             minX == SeqMin(xs)
             maxX == SeqMax(xs)
             centroidX == SeqSum(xs) \div Len(xs)
             pct(x) == Max2(0, Min2(100 * Unit, FDiv(x - bounds.minX, bounds.width) * 100))
         IN  Merge(s, [ transverse_start |-> pct(minX),
                        transverse_peak |-> pct(centroidX),
                        transverse_end |-> pct(maxX) ])

\* the curve record with absent curves as <<>>
NoCurves ==
    [ medial |-> <<>>, medialFlat |-> <<>>, lateral |-> <<>>, lateralFlat |-> <<>>,
      transverse |-> <<>>, transverseFlat |-> <<>>, heelBridge |-> <<>>,
      lateralBridge |-> <<>>, metatarsalBridge |-> <<>> ]

\* the curves the initialization effect of the editor stores, and whether it
\* stores any, given the kept or generated solid curves
initialCurvesOf(cur, medialPoints, lateralPoints, transversePoints) ==
    LET needsRegenMedial ==
            \/ Len(cur.medialFlat) = 0
            \/ /\ Len(medialPoints) > 0
               /\ Abs(cur.medialFlat[1].x - medialPoints[1].x) < Unit \div 10
        needsRegenLateral ==
            \/ Len(cur.lateralFlat) = 0
            \/ /\ Len(lateralPoints) > 0
               /\ Abs(cur.lateralFlat[1].x - lateralPoints[1].x) < Unit \div 10
        needsRegenTransverse == Len(cur.transverseFlat) = 0
        needsRegenHeelBridge == Len(cur.heelBridge) = 0
        needsRegenLateralBridge == Len(cur.lateralBridge) = 0
        needsRegenMetatarsalBridge == Len(cur.metatarsalBridge) = 0
    IN  [ store |-> \/ needsRegenMedial \/ needsRegenLateral \/ needsRegenTransverse
                   \/ needsRegenHeelBridge \/ needsRegenLateralBridge
                   \/ needsRegenMetatarsalBridge \/ archCurves = <<>>,
          curves |->
            [ medial |-> medialPoints,
              medialFlat |-> IF needsRegenMedial THEN createFlatCurve(medialPoints, -1, FALSE)
                             ELSE cur.medialFlat,
              lateral |-> lateralPoints,
              lateralFlat |-> IF needsRegenLateral THEN createFlatCurve(lateralPoints, 1, FALSE)
                              ELSE cur.lateralFlat,
              transverse |-> transversePoints,
              transverseFlat |-> IF needsRegenTransverse
                                 THEN createFlatCurve(transversePoints, 1, TRUE)
                                 ELSE cur.transverseFlat,
              heelBridge |-> IF needsRegenHeelBridge
                             THEN generateHeelBridge(medialPoints, lateralPoints)
                             ELSE cur.heelBridge,
              lateralBridge |-> IF needsRegenLateralBridge
                                THEN generateLateralBridge(lateralPoints, transversePoints)
                                ELSE cur.lateralBridge,
              metatarsalBridge |-> IF needsRegenMetatarsalBridge
                                   THEN generateMetatarsalBridge(medialPoints, transversePoints)
                                   ELSE cur.metatarsalBridge ],
          transverse |-> transversePoints ]

\* the solid curves are kept when present and generated otherwise
initialCurvesFrom(cur) ==
    initialCurvesOf(cur,
        IF Len(cur.medial) > 0 THEN cur.medial ELSE generateArch("medial"),
        IF Len(cur.lateral) > 0 THEN cur.lateral ELSE generateArch("lateral"),
        IF Len(cur.transverse) > 0 THEN cur.transverse ELSE generateTransverse)

initialCurves == initialCurvesFrom(IF archCurves = <<>> THEN NoCurves ELSE archCurves[1])

(***************************************************************************)
(* Outline setup and the handlers of the arch-region editor                *)
(***************************************************************************)
\* pointer positions (logical mm) and pointer movements explored
\* the last one lies beyond the toe, where the outline has no edge
PointerPositions ==
    { Pt(50 * Unit, 10 * Unit), Pt(30 * Unit, 30 * Unit), Pt(110 * Unit, 10 * Unit) }
Movements == { Pt(5 * Unit, 0), Pt(0 - 20 * Unit, 2 * Unit) }
\* the control points grabbed: << curve, index >> with the index from 0
DragTargets ==
    { << "medial", 0 >>, << "medial", 3 >>, << "medial", 7 >>,
      << "lateral", 2 >>, << "lateral", 4 >>,
      << "transverse", 2 >>, << "transverse", 4 >>,
      << "medialFlat", 0 >>, << "medialFlat", 4 >>, << "lateralFlat", 4 >>,
      << "heelBridge", 0 >>, << "heelBridge", 1 >>,
      << "lateralBridge", 1 >>, << "lateralBridge", 2 >>,
      << "metatarsalBridge", 1 >> }

\* the outline editor's initial setup effect: an empty outline is replaced by
\* the demo outline
OutlineSetup ==
    /\ Len(outlinePoints) = 0
    /\ outlinePoints' = DemoOutline
    /\ UNCHANGED << baseThickness, heelCupHeight, medialWallHeight, medialWallPeakX,
                    lateralWallHeight, lateralWallPeakX, activeFootSide, archSettingsRight,
                    archSettingsLeft, landmarkConfig, widthConfig, wizardVars, callVars, archCurves,
                    xPercent, dragVars, edits >>

\* the store fields the editor never writes
EditorUnchanged ==
    UNCHANGED << baseThickness, heelCupHeight, medialWallHeight, medialWallPeakX,
                 lateralWallHeight, lateralWallPeakX, activeFootSide, landmarkConfig,
                 widthConfig, wizardVars, callVars, outlinePoints, xPercent >>

\* the editor's initialization effect
\* setArchCurves(initialCurves); syncTransverseToArchSettings(transversePoints)
StoreInitialCurves(ic) ==
    IF ic.store
    THEN /\ archCurves' = << ic.curves >>
         /\ updateArchSettings(activeFootSide,
                syncTransverseToArchSettings(archSettings, ic.transverse))
    ELSE UNCHANGED << archCurves, archSettingsRight, archSettingsLeft >>

\* the editor's initialization effect
ArchRegionInit ==
    /\ Len(outlinePoints) > 0
    /\ StoreInitialCurves(initialCurves)
    /\ EditorUnchanged
    /\ UNCHANGED << dragVars, edits >>

\* setArchCurves({...archCurves, transverse}); syncTransverseToArchSettings(transverse)
StoreTransverse(newTransverse) ==
    /\ archCurves' = << [ archCurves[1] EXCEPT !.transverse = newTransverse ] >>
    /\ updateArchSettings(activeFootSide,
           syncTransverseToArchSettings(archSettings, newTransverse))

resetTransverse ==
    /\ archCurves # <<>>
    /\ Edit
    /\ StoreTransverse(generateTransverse)
    /\ EditorUnchanged
    /\ UNCHANGED dragVars

\* handleMouseDownPoint without the early return on the end points of the
\* solid arches and the bridges
handleMouseDownPointAnyPoint(type, idx) ==
    /\ edits < MaxEdits
    /\ archCurves # <<>>
    /\ idx < Len(archCurves[1][type])
    /\ draggingCurve' = type
    /\ draggingPointIdx' = idx
    /\ isDraggingWholeCurve' = FALSE
    /\ UNCHANGED << storeVars, xPercent, edits, wizardVars, callVars >>

handleMouseDownPoint(type, idx) ==
    /\ edits < MaxEdits                    \* no drag is explored beyond the bound
    /\ archCurves # <<>>
    /\ idx < Len(archCurves[1][type])      \* a handle is drawn for each point
    /\ LET isSolidArch == type \in { "medial", "lateral" }
           isBridge == type \in { "heelBridge", "lateralBridge", "metatarsalBridge" }
           len == Len(archCurves[1][type])
       IN  IF (isSolidArch \/ isBridge) /\ (idx = 0 \/ idx = len - 1)
           THEN UNCHANGED dragVars
           ELSE /\ draggingCurve' = type
                /\ draggingPointIdx' = idx
                /\ isDraggingWholeCurve' = FALSE
    /\ UNCHANGED << storeVars, xPercent, edits, wizardVars, callVars >>

handleMouseDownCurve(type) ==
    /\ edits < MaxEdits                    \* no drag is explored beyond the bound
    /\ IF type = "transverse"
       THEN /\ draggingCurve' = type
            /\ draggingPointIdx' = NoIdx
            /\ isDraggingWholeCurve' = TRUE
       ELSE UNCHANGED dragVars
    /\ UNCHANGED << storeVars, xPercent, edits, wizardVars, callVars >>

\* newCurves after the bridge ends are re-attached to the transverse points
SyncBridgesToTransverse(c, points) ==
    LET lb == IF Len(c.lateralBridge) >= 3 /\ Len(points) >= 5
              THEN [ c.lateralBridge EXCEPT ![Len(c.lateralBridge)] = points[5] ]
              ELSE c.lateralBridge
        mb == IF Len(c.metatarsalBridge) >= 3 /\ Len(points) >= 3
              THEN [ c.metatarsalBridge EXCEPT ![1] = points[3] ]
              ELSE c.metatarsalBridge
    IN  [ c EXCEPT !.lateralBridge = lb, !.metatarsalBridge = mb ]

\* the curves handleMouseMove stores for the pointer at pos having moved by mov
\* (transform.k = 1)
movedCurves(pos, mov) ==
    LET c == archCurves[1]
        pts == c[draggingCurve]
    IN  IF isDraggingWholeCurve
        THEN LET points == [ k \in 1..Len(pts) |-> Pt(pts[k].x + mov.x, pts[k].y + mov.y) ]
                 moved == [ c EXCEPT ![draggingCurve] = points ]
             IN  IF draggingCurve = "transverse" THEN SyncBridgesToTransverse(moved, points)
                 ELSE moved
        ELSE LET k == draggingPointIdx + 1
                 yBounds == getOutlineYAtX(outlinePoints, pos.x)
                 snapped ==
                    IF /\ draggingCurve \in { "medialFlat", "lateralFlat" }
                       /\ (draggingPointIdx = 0 \/ draggingPointIdx = Len(pts) - 1)
                       /\ yBounds # <<>>
                    THEN Pt(pos.x, IF draggingCurve = "medialFlat" THEN yBounds[1]
                                   ELSE yBounds[2])
                    ELSE pos
                 points == [ pts EXCEPT ![k] = snapped ]
                 moved == [ c EXCEPT ![draggingCurve] = points ]
             IN  IF draggingCurve = "medial"
                 THEN [ moved EXCEPT
                          !.medialFlat = createFlatCurve(points, -1, FALSE),
                          !.metatarsalBridge =
                              IF Len(c.metatarsalBridge) >= 3 /\ Len(points) >= 8
                              THEN [ c.metatarsalBridge EXCEPT
                                       ![Len(c.metatarsalBridge)] = points[8] ]
                              ELSE c.metatarsalBridge ]
                 ELSE IF draggingCurve = "lateral"
                 THEN [ moved EXCEPT !.lateralFlat = createFlatCurve(points, 1, FALSE) ]
                 ELSE IF draggingCurve = "transverse"
                 THEN SyncBridgesToTransverse(
                          [ moved EXCEPT !.transverseFlat = createFlatCurve(points, 1, TRUE) ],
                          points)
                 ELSE moved

handleMouseMove(pos, mov) ==
    /\ draggingCurve # NoDrag
    /\ archCurves # <<>>
    /\ isDraggingWholeCurve \/ draggingPointIdx # NoIdx
    /\ Edit
    /\ archCurves' = << movedCurves(pos, mov) >>
    /\ UNCHANGED << archSettingsRight, archSettingsLeft, dragVars >>
    /\ EditorUnchanged

handleMouseUp ==
    /\ IF draggingCurve = "transverse" /\ archCurves # <<>>
       THEN updateArchSettings(activeFootSide,
                syncTransverseToArchSettings(archSettings, archCurves[1].transverse))
       ELSE UNCHANGED << archSettingsRight, archSettingsLeft >>
    /\ draggingCurve' = NoDrag
    /\ draggingPointIdx' = NoIdx
    /\ isDraggingWholeCurve' = FALSE
    /\ UNCHANGED << archCurves, edits >>
    /\ EditorUnchanged

(***************************************************************************)
(* Specifications                                                          *)
(***************************************************************************)
\* the sidebar sliders and the cross-section viewer, with the outline setup
\* and the curve generation of the arch-region editor (the editor's mouse
\* handlers are the subject of SpecEditor)
Next ==
    \/ \E v \in XValues : SetXPercent(v)
    \/ \E side \in FootSides : SetActiveFootSide(side)
    \/ \E field \in ArchHeightFields, v \in ArchHeightValues : SetArchHeight(field, v)
    \/ \E enabled \in BOOLEAN : handleDetailToggle(enabled)
    \/ \E enabled \in BOOLEAN : handleTransverseDetailToggle(enabled)
    \/ \E idx \in 1..4, v \in DetailDragValues : MedialDetailDrag(idx, v)
    \/ \E idx \in 1..4, v \in DetailDragValues : TransverseDetailDrag(idx, v)
    \/ \E e \in LandmarkEdits : updateLandmarkPos(e[1], e[2])
    \/ \E val \in BaseThicknessValues : setBaseThickness(val)
    \/ \E val \in HeelCupHeightValues : setHeelCupHeight(val)
    \/ \E val \in MedialWallHeightValues : setMedialWallHeight(val)
    \/ \E val \in MedialWallPeakValues : setMedialWallPeakX(val)
    \/ \E val \in LateralWallHeightValues : setLateralWallHeight(val)
    \/ \E val \in LateralWallPeakValues : setLateralWallPeakX(val)
    \/ OutlineSetup
    \/ ArchRegionInit

Spec == Init /\ [][Next]_vars

CurveNames == { "medial", "lateral", "transverse", "medialFlat", "lateralFlat",
                "heelBridge", "lateralBridge", "metatarsalBridge" }

\* the arch-region editor: every mouse handler, the reset button, the
\* initialization effect, on either foot side
NextEditor ==
    \/ OutlineSetup
    \/ ArchRegionInit
    \/ \E side \in FootSides : SetActiveFootSide(side)
    \/ \E t \in DragTargets : handleMouseDownPoint(t[1], t[2])
    \/ \E type \in CurveNames : handleMouseDownCurve(type)
    \/ \E pos \in PointerPositions, mov \in Movements : handleMouseMove(pos, mov)
    \/ handleMouseUp
    \/ resetTransverse

SpecEditor == Init /\ [][NextEditor]_vars

(***************************************************************************)
(* Properties of the preview height field                                  *)
(***************************************************************************)
\* C1: every sample of the cross section on screen has a total height h that
\* is at least baseThickness
C1_HeightAtLeastBase ==
    LET p == profileData
    IN  \A i \in 0..resolution : FGe(p[i].h, baseThickness)

\* C2 as stated: the final height of every sample is
\* baseThickness + max(baseThickness, blended)
C2_HeightIsBasePlusMaxOfBaseAndBlended ==
    LET p == profileData
    IN  \A i \in 0..resolution :
            LET r == p[i]
            IN  r.h = FAdd(baseThickness, FMax(baseThickness, r.blendedHeight))

\* C2 amended: the final height of every sample is baseThickness + blended,
\* raised to baseThickness when that sum is lower (blended < 0), where blended
\* = wallH * (1 - blend) + archH * blend; a NaN blended gives a NaN height
C2_HeightIsBasePlusBlendedFloored ==
    LET p == profileData
    IN  \A i \in 0..resolution :
            LET r == p[i]
                blended == r.blendedHeight
            IN  /\ blended = FAdd(FMul(r.wallH, Unit - r.blend), FMul(r.archH, r.blend))
                /\ r.h = IF IsNaN(blended) THEN FNaN
                         ELSE FMax(baseThickness, FAdd(baseThickness, blended))

\* a cross section with samples whose blended height is below baseThickness
\* and samples whose blended height is above it
C2_Witness ==
    LET p == profileData
    IN  /\ xPercent # 50 * Unit
        /\ \E i \in 0..resolution : FLt(p[i].blendedHeight, baseThickness)
        /\ \E i \in 0..resolution : FGt(p[i].blendedHeight, baseThickness)

\* C3: at a cross section at or before transverse_start, or at or after
\* transverse_end, of the active side, the transverse arch height is 0 at
\* every sample (bell or detail mode, with or without a transverse polygon)
C3_TransverseZeroOutsideRange ==
    (xPercent <= archSettings.transverse_start \/ xPercent >= archSettings.transverse_end)
        => LET p == profileData
           IN  \A i \in 0..resolution : p[i].transverseArchHeight = 0

\* a cross section outside the transverse range of the active side that the
\* transverse polygon nevertheless covers, with a transverse arch height set
C3_Witness ==
    /\ archCurves # <<>>
    /\ archSettings.transverse_height > 0
    /\ xPercent <= archSettings.transverse_start \/ xPercent >= archSettings.transverse_end
    /\ profileData[resolution \div 2].usesPolygon

\* the three arch heights of the active side are 0
AllArchHeightsZero ==
    /\ archSettings.medial_height = 0
    /\ archSettings.lateral_height = 0
    /\ archSettings.transverse_height = 0

\* C4 as stated: when the three arch heights of the active side are 0, archH
\* is 0 at every sample, whatever the detail flags and stored detail heights
C4_ZeroHeightsGiveZeroArch ==
    AllArchHeightsZero
        => LET p == profileData
           IN  \A i \in 0..resolution : p[i].archH = 0

\* C4 amended: when the three arch heights of the active side are 0 and both
\* detail modes are off, archH is 0 at every sample
C4_ZeroHeightsGiveZeroArchWithoutDetail ==
    (/\ AllArchHeightsZero
     /\ ~archSettings.medial_detail_enabled
     /\ ~archSettings.transverse_detail_enabled)
        => LET p == profileData
           IN  \A i \in 0..resolution : p[i].archH = 0

\* all heights 0 and detail modes off, with the arch curves present and the
\* cross section inside the medial and transverse ranges
C4_Witness ==
    /\ AllArchHeightsZero
    /\ ~archSettings.medial_detail_enabled
    /\ ~archSettings.transverse_detail_enabled
    /\ archCurves # <<>>
    /\ xPercent = 50 * Unit
    /\ profileData[resolution \div 2].usesPolygon

\* the four positions at which handleDetailToggle samples the bell curve
medialLandmarkXs ==
    LET cun == landmarkConfig.medial_cuneiform
    IN  << landmarkConfig.subtalar, landmarkConfig.navicular, cun,
           (cun + (landmarkConfig.metatarsal + Unit)) \div 2 >>

\* the four positions at which handleTransverseDetailToggle samples the bell curve
transverseLandmarkXs ==
    LET cun == landmarkConfig.medial_cuneiform
        met == landmarkConfig.metatarsal
    IN  << landmarkConfig.navicular, cun, (cun + met) \div 2, met >>

\* the step turns the medial detail mode of the side on screen on while its
\* stored detail heights are all zero or absent (the landmarks stay in place)
MedialDetailEnabledFromZero ==
    /\ UNCHANGED << activeFootSide, landmarkConfig >>
    /\ ~archSettings.medial_detail_enabled
    /\ archSettings'.medial_detail_enabled
    /\ AllZero(HeightsOr0(archSettings.medial_detail_heights))

TransverseDetailEnabledFromZero ==
    /\ UNCHANGED << activeFootSide, landmarkConfig >>
    /\ ~archSettings.transverse_detail_enabled
    /\ archSettings'.transverse_detail_enabled
    /\ AllZero(HeightsOr0(archSettings.transverse_detail_heights))

\* C5: a step that enables the medial (transverse) detail mode from all-zero
\* detail heights stores the bell-curve values at the four landmark positions,
\* rounded to 0.1 mm, and afterwards the detail spline evaluated at each of
\* the four positions returns the stored value
C5_DetailInitReproducesBell ==
    [][ /\ MedialDetailEnabledFromZero =>
            /\ archSettings'.medial_detail_heights = medialBellHeights(archSettings)
            /\ \A k \in 1..4 :
                  evaluateDetailArch(archSettings', medialLandmarkXs[k])
                      = archSettings'.medial_detail_heights[k]
        /\ TransverseDetailEnabledFromZero =>
            /\ archSettings'.transverse_detail_heights = transverseBellHeights(archSettings)
            /\ \A k \in 1..4 :
                  evaluateTransverseDetail(archSettings', transverseLandmarkXs[k])
                      = archSettings'.transverse_detail_heights[k]
      ]_vars

\* the start, peak, maximum height and end of the medial and lateral wall
\* profiles, as profileData passes them to getWallHeight
WallProfiles ==
    { [ startX |-> OrDefault(landmarkConfig.arch_start, 15 * Unit),
        peakX |-> medialWallPeakX, maxH |-> medialWallHeight,
        endX |-> OrDefault(landmarkConfig.metatarsal, 70 * Unit) ],
      [ startX |-> OrDefault(landmarkConfig.lateral_arch_start, 20 * Unit),
        peakX |-> lateralWallPeakX, maxH |-> lateralWallHeight,
        endX |-> OrDefault(landmarkConfig.cuboid, 45 * Unit) ] }

\* C6: the wall profile has no step: at x = start, x = peak and x = end of
\* the medial and of the lateral wall, the value just left of x equals the
\* value just right of x
C6_WallProfileHasNoStep ==
    \A w \in WallProfiles : \A x \in { w.startX, w.peakX, w.endX } :
        getWallHeightAt(x, 0 - 1, w.peakX, w.maxH, w.startX, w.endX)
            = getWallHeightAt(x, 1, w.peakX, w.maxH, w.startX, w.endX)

\* the index of the width sample on the medial outline edge: the first sample
\* (currentYMin) for the right foot, the last (currentYMax) for the left foot
medialEdgeSample == IF isRightFoot THEN 0 ELSE resolution

lateralEdgeSample == resolution - medialEdgeSample

\* C10: for the foot side on screen, the sample on the medial outline edge
\* has archYRatio 1 and a wall height (before the heel cup is added) equal to
\* the medial wall profile value; the sample on the lateral edge has
\* archYRatio 0 and the lateral wall profile value; the medial edge is the
\* first sample for the right foot and the last for the left foot
C10_EdgeSamplesTakeTheirWall ==
    LET p == profileData
        m == p[medialEdgeSample]
        l == p[lateralEdgeSample]
    IN  /\ m.currentY = m.medialEdge
        /\ m.archYRatio = Unit
        /\ m.wallH - m.heelCupAdd = m.innerWallH
        /\ l.currentY = l.lateralEdge
        /\ l.archYRatio = 0
        /\ l.wallH - l.heelCupAdd = l.outerWallH

\* the left foot on screen, over an outline of positive width, with medial
\* and lateral wall values that differ
C10_Witness ==
    LET p == profileData
        m == p[medialEdgeSample]
    IN  /\ activeFootSide = "left"
        /\ outlinePoints # <<>>
        /\ m.medialEdge # m.lateralEdge
        /\ m.innerWallH # m.outerWallH
        /\ m.archYRatio = Unit

(***************************************************************************)
(* Properties of the arch-region editor                                    *)
(***************************************************************************)
\* C7: once the curves exist, every bridge endpoint lies on its anchor:
\* heelBridge[0] = medial[0], heelBridge[last] = lateral[0],
\* lateralBridge[0] = lateral[last], lateralBridge[last] = transverse[4],
\* metatarsalBridge[0] = transverse[2], metatarsalBridge[last] = medial[7]
C7_BridgeEndsOnAnchors ==
    archCurves # <<>> =>
        LET c == archCurves[1]
        IN  /\ c.heelBridge[1] = c.medial[1]
            /\ c.heelBridge[Len(c.heelBridge)] = c.lateral[1]
            /\ c.lateralBridge[1] = c.lateral[Len(c.lateral)]
            /\ c.lateralBridge[Len(c.lateralBridge)] = c.transverse[5]
            /\ c.metatarsalBridge[1] = c.transverse[3]
            /\ c.metatarsalBridge[Len(c.metatarsalBridge)] = c.medial[8]

\* the first and the last point of a curve
EndsOf(points) == { points[1], points[Len(points)] }

C9_SolidEndsNeverMove ==
    [][ (archCurves # <<>> /\ archCurves' # <<>>) =>
            LET before == archCurves[1]
                after == archCurves'[1]
            IN  /\ after.medial[1] = before.medial[1]
                /\ after.medial[Len(after.medial)] = before.medial[Len(before.medial)]
                /\ after.lateral[1] = before.lateral[1]
                /\ after.lateral[Len(after.lateral)] = before.lateral[Len(before.lateral)]
      ]_vars

\* an interior point of the solid medial curve and one of the solid lateral
\* curve have been dragged away while the end points are where the generation
\* put them
C9_Witness ==
    /\ archCurves # <<>>
    /\ LET c == archCurves[1]
           m == generateArch("medial")
           l == generateArch("lateral")
       IN  /\ c.medial # m /\ c.lateral # l
           /\ c.medial[1] = m[1] /\ c.medial[Len(c.medial)] = m[Len(m)]
           /\ c.lateral[1] = l[1] /\ c.lateral[Len(c.lateral)] = l[Len(l)]

(***************************************************************************)
(* Properties of the blend, the micro-height floor and the arch bands      *)
(***************************************************************************)
\* the distance of a sample from the nearer of the medial and lateral edges
DistFromEdge(r) == Min2(Abs(r.currentY - r.medialEdge), Abs(r.currentY - r.lateralEdge))

\* C11: at every sample the final blend weight is min(yBlend, xBlend); yBlend
\* is 0 closer than 0.5 mm to the nearer edge, 1 at 10 mm or more and the
\* smoothstep of (distance - 0.5) / 9.5 in between; and a sample closer than
\* 0.5 mm to an edge has the height baseThickness + wallH
C11_EdgeBlend ==
    LET p == profileData
    IN  \A i \in 0..resolution :
            LET r == p[i]
                d == DistFromEdge(r)
            IN  /\ r.blend = Min2(r.yBlend, r.xBlend)
                /\ r.yBlend = IF d < Unit \div 2 THEN 0
                              ELSE IF d >= 10 * Unit THEN Unit
                              ELSE smoothstep(FDiv(d - Unit \div 2, 10 * Unit - Unit \div 2))
                /\ d < Unit \div 2 => r.h = FAdd(baseThickness, r.wallH)

\* C12: a sample inside the arch-pad Y range, at distance d from the nearer
\* bound of the range, has archH >= 0.4 * min(1, max(archInner, archOuter,
\* archTransverse) / max(medial_height, lateral_height, 0.01)) * w(d), with
\* w(d) = 1 for d >= 3 mm, smoothstep(d / 3) for 0 < d < 3 mm, 0 for d <= 0;
\* that floor is 0 when the three arch values are 0 and is never above 0.4 mm
C12_MicroHeightFloor ==
    LET p == profileData
        s == archSettings
    IN  \A i \in 0..resolution :
            LET r == p[i]
                pad == r.archPadYRange
                d == Min2(r.currentY - pad[1], pad[2] - r.currentY)
                x == FMax(FMax(r.archInner, r.archOuter), r.archTransverse)
                maxArchH == Max2(Max2(s.medial_height, s.lateral_height), Unit \div 100)
                w == IF d >= 3 * Unit THEN Unit
                     ELSE IF d > 0 THEN smoothstep(FDiv(d, 3 * Unit))
                     ELSE 0
                floor == FMul(FMul(4 * (Unit \div 10), FMin(Unit, FDiv(x, maxArchH))), w)
            IN  (pad # <<>> /\ r.currentY >= pad[1] /\ r.currentY <= pad[2]) =>
                    /\ FGe(r.archH, floor)
                    /\ (r.archInner = 0 /\ r.archOuter = 0 /\ r.archTransverse = 0)
                          => floor = 0
                    /\ ~FGt(floor, 4 * (Unit \div 10))

\* the store holds a solid and a flat curve for the arch
HoldsCurvePair(solid, flat) ==
    Len(CurveOf(solid)) > 0 /\ Len(CurveOf(flat)) > 0

\* The curve Ys of a cross section are taken once, before the samples are
\* walked (lines 360-363), so the first and the last sample stand for all.
\* C13 as stated: the percentage-band fallback is applied to a longitudinal
\* arch only when the store holds no solid/flat curve pair for that arch
C13_FallbackOnlyWithoutCurves ==
    LET p == profileData
    IN  \A i \in { 0, resolution } :
            LET r == p[i]
            IN  /\ r.medialFallback => ~HoldsCurvePair("medial", "medialFlat")
                /\ r.lateralFallback => ~HoldsCurvePair("lateral", "lateralFlat")

\* C14: every curve the height evaluation tests a sample against is densified
\* by Catmull-Rom interpolation before the test: the Y taken from the solid
\* and flat medial and lateral curves at the cross section is the Y of the
\* densified curve, and the transverse range is the range of the densified
\* polygon; no raw control-point polyline is used
C14_CurvesDensifiedBeforeTest ==
    LET r == profileData[0]
    IN  /\ r.medialSolidY = getYAtX(densifyOpenCurve(CurveOf("medial")), r.currentX)
        /\ r.medialFlatY = getYAtX(densifyOpenCurve(CurveOf("medialFlat")), r.currentX)
        /\ r.lateralSolidY = getYAtX(densifyOpenCurve(CurveOf("lateral")), r.currentX)
        /\ r.lateralFlatY = getYAtX(densifyOpenCurve(CurveOf("lateralFlat")), r.currentX)
        /\ r.transverseRange =
               IF CurveOf("transverse") = <<>> THEN <<>>
               ELSE getYRangeAtX(densifyClosedPolygon(CurveOf("transverse")), r.currentX)

(***************************************************************************)
(* The wizard: patient selection, step navigation, the outline editor and  *)
(* the generation request of the preview step                              *)
(***************************************************************************)
MaxOutlineEdits == 2
PatientIds == { "p1", "p2" }
FirstPatient == "p1"
\* the sizes of the sidebar's select (220..300 in steps of 5) explored
SizeValues == { 220, 300 }
\* the vertices grabbed in the outline editor (index from 0) and the pointer
\* positions they are dragged to
OutlineDragIndexes == { 0, 3 }
OutlinePointerPositions == { Pt(50 * Unit, 25 * Unit) }

RECURSIVE ISqrtFrom(_, _)
ISqrtFrom(n, x) ==
    LET y == (x + n \div x) \div 2
    IN  IF y >= x THEN x ELSE ISqrtFrom(n, y)

\* Math.sqrt on a non-negative integer, rounded down
ISqrt(n) == IF n <= 0 THEN 0 ELSE ISqrtFrom(n, n)

\* dist(p1, p2), to 0.01 mm
dist(p1, p2) ==
    LET dx == Abs(p1.x - p2.x) \div 10
        dy == Abs(p1.y - p2.y) \div 10
    IN  10 * ISqrt(dx * dx + dy * dy)

\* accumulatedDist after each of the segments a..b of the closed polygon,
\* from the value it has before segment a
RECURSIVE accumulatedDists(_, _, _, _)
accumulatedDists(points, a, b, before) ==
    IF a > b THEN << >>
    ELSE IF a = b
         THEN << before + dist(points[a], points[(a % Len(points)) + 1]) >>
         ELSE LET m == (a + b) \div 2
                  left == accumulatedDists(points, a, m, before)
              IN  left \o accumulatedDists(points, m + 1, b, left[Len(left)])

\* resamplePolygon(points, targetCount): the perimeter walk places target k
\* (at k steps from the first point) on the first segment whose end lies
\* beyond it, as long as fewer than targetCount points have been placed
resamplePolygon(points, targetCount) ==
    IF Len(points) < 2 THEN points
    ELSE LET n == Len(points)
             acc == accumulatedDists(points, 1, n, 0)
             totalLength == acc[n]
             \* a positive perimeter has a positive step
             step == IF totalLength > 0 THEN Max2(1, totalLength \div targetCount) ELSE 0
             placed == IF step = 0 THEN 0
                       ELSE Min2(targetCount - 1, (totalLength - 1) \div step)
             target(k) ==
                 LET nextDist == k * step
                     i == CHOOSE j \in 1..n :
                              acc[j] > nextDist /\ (j = 1 \/ acc[j - 1] <= nextDist)
                     p1 == points[i]
                     p2 == points[(i % n) + 1]
                     accumulatedDist == IF i = 1 THEN 0 ELSE acc[i - 1]
                     segmentLen == acc[i] - accumulatedDist
                     ratio == FDiv(nextDist - accumulatedDist, segmentLen)
                 IN  Pt(p1.x + FMul(p2.x - p1.x, ratio), p1.y + FMul(p2.y - p1.y, ratio))
             walked == << points[1] >> \o [ k \in 1..placed |-> target(k) ]
             padded == walked \o [ k \in 1..(targetCount - Len(walked)) |-> points[n] ]
         IN  SubSeq(padded, 1, targetCount)

\* parseOutlineCsv(DEMO_OUTLINE_CSV, size, 50): the demo outline scaled to the
\* length asked for (DemoOutline is the one of 260)
parseOutlineCsv(targetLengthMm) ==
    [ k \in 1..Len(DemoOutline) |->
        Pt((DemoOutline[k].x * targetLengthMm) \div 260,
           (DemoOutline[k].y * targetLengthMm) \div 260) ]

\* the outline a step's canvas leaves without its setup effect
mountStepWithoutSetup(step, points) == points

\* rendering a step mounts its canvas; the outline editor's setup effect
\* (flushed with the render that mounts it) installs the demo outline in an
\* empty store
mountStep(step, points) ==
    IF step = STEPS.OUTLINE /\ Len(points) = 0 THEN DemoOutline ELSE points

\* what no wizard action writes
WizardUnchanged ==
    UNCHANGED << baseThickness, heelCupHeight, medialWallHeight, medialWallPeakX,
                 lateralWallHeight, lateralWallPeakX, activeFootSide, archSettingsRight,
                 archSettingsLeft, landmarkConfig, widthConfig, archCurves, xPercent,
                 dragVars, hollowShell, unitCell, bandSample, storeCall, presets, densified >>

\* Sidebar: the effect that loads the patients and selects the first one when
\* none is selected (no preset is stored: loadPatientPreset changes nothing)
loadPatients ==
    /\ patients' = PatientIds
    /\ patientId' = IF patientId = NoPatient THEN FirstPatient ELSE patientId
    /\ UNCHANGED << currentStep, draggingIndex, generateRequest, outlinePoints, edits >>
    /\ WizardUnchanged
    /\ UNCHANGED previewVars

\* page.tsx: handleSelectPatient(id)
handleSelectPatient(id) ==
    /\ currentStep = STEPS.PATIENT
    /\ patientId' = id
    /\ currentStep' = STEPS.OUTLINE
    /\ outlinePoints' = mountStep(STEPS.OUTLINE, outlinePoints)
    /\ UNCHANGED << patients, draggingIndex, generateRequest, edits >>
    /\ WizardUnchanged
    /\ UNCHANGED previewVars

\* Sidebar: nextStep
nextStep ==
    /\ currentStep < STEPS.PREVIEW
    /\ currentStep = STEPS.OUTLINE => edits < MaxOutlineEdits
    /\ LET resampled == IF currentStep = STEPS.OUTLINE
                        THEN resamplePolygon(outlinePoints, 200) ELSE outlinePoints
           step == Min2(6, currentStep + 1)
       IN  /\ currentStep' = step
           /\ outlinePoints' = mountStep(step, resampled)
    /\ edits' = IF currentStep = STEPS.OUTLINE THEN edits + 1 ELSE edits
    /\ draggingIndex' = NoIdx
    /\ UNCHANGED << patients, patientId, generateRequest >>
    /\ WizardUnchanged
    /\ UNCHANGED previewVars

\* clearInterval(pollingInterval.current); pollingInterval.current = null
clearPolling ==
    /\ timers' = timers \ { pollingInterval }
    /\ pollingInterval' = NoTimer

\* PreviewStep leaves the screen: the cleanup of its mount effect runs, and
\* its state and refs are gone (the next mount starts from the initial ones)
unmountPreview ==
    /\ clearPolling
    /\ status' = "idle"
    /\ pollErrorCount' = 0
    /\ resultUrls' = <<>>
    /\ pollLog' = [ last |-> "none", failures |-> 0 ]
    /\ UNCHANGED << currentModelUrl, generating, inFlight, backend, generations >>

\* Sidebar: prevStep (the button is disabled on step 0)
prevStep ==
    /\ currentStep # 0
    /\ currentStep' = Max2(0, currentStep - 1)
    /\ outlinePoints' = mountStep(Max2(0, currentStep - 1), outlinePoints)
    /\ draggingIndex' = NoIdx
    /\ IF currentStep = STEPS.PREVIEW THEN unmountPreview ELSE UNCHANGED previewVars
    /\ UNCHANGED << patients, patientId, generateRequest, edits >>
    /\ WizardUnchanged

\* PreviewStep: the back-to-start button
restart ==
    /\ currentStep = STEPS.PREVIEW
    /\ currentStep' = 0
    /\ unmountPreview
    /\ UNCHANGED << patients, patientId, draggingIndex, generateRequest, outlinePoints, edits >>
    /\ WizardUnchanged

\* Sidebar: handleApplySize with the size selected
handleApplySize(size) ==
    /\ currentStep = STEPS.OUTLINE
    /\ edits < MaxOutlineEdits
    /\ outlinePoints' = parseOutlineCsv(size)
    /\ edits' = edits + 1
    /\ UNCHANGED << currentStep, patients, patientId, draggingIndex, generateRequest >>
    /\ WizardUnchanged
    /\ UNCHANGED previewVars

\* OutlineEditorCanvas: handleMouseDown(index) on a vertex
outlineHandleMouseDown(index) ==
    /\ currentStep = STEPS.OUTLINE
    /\ index < Len(outlinePoints)
    /\ draggingIndex' = index
    /\ UNCHANGED << currentStep, patients, patientId, generateRequest, outlinePoints, edits >>
    /\ WizardUnchanged
    /\ UNCHANGED previewVars

\* the neighbours of the dragged vertex follow it: newPoints after the pair
\* at one offset has been moved
dragNeighbours(newPoints, index, offset, ddx, ddy) ==
    LET n == Len(newPoints)
        prevIdx == ((index - offset + n) % n) + 1
        nextIdx == ((index + offset) % n) + 1
        a == [ newPoints EXCEPT ![prevIdx] = Pt(@.x + ddx, @.y + ddy) ]
    IN  [ a EXCEPT ![nextIdx] = Pt(@.x + ddx, @.y + ddy) ]

\* OutlineEditorCanvas: handleMouseMove while a vertex is dragged
outlineHandleMouseMove(pos) ==
    /\ currentStep = STEPS.OUTLINE
    /\ draggingIndex # NoIdx
    /\ edits < MaxOutlineEdits
    /\ LET dx == pos.x - outlinePoints[draggingIndex + 1].x
           dy == pos.y - outlinePoints[draggingIndex + 1].y
           moved == [ outlinePoints EXCEPT ![draggingIndex + 1] = pos ]
           first == dragNeighbours(moved, draggingIndex, 1,
                                   FMul(dx, 350), FMul(dy, 350))
       IN  outlinePoints' = dragNeighbours(first, draggingIndex, 2,
                                           FMul(dx, 120), FMul(dy, 120))
    /\ edits' = edits + 1
    /\ UNCHANGED << currentStep, patients, patientId, draggingIndex, generateRequest >>
    /\ WizardUnchanged
    /\ UNCHANGED previewVars

\* OutlineEditorCanvas: handleMouseUp
outlineHandleMouseUp ==
    /\ currentStep = STEPS.OUTLINE
    /\ draggingIndex # NoIdx
    /\ draggingIndex' = NoIdx
    /\ UNCHANGED << currentStep, patients, patientId, generateRequest, outlinePoints, edits >>
    /\ WizardUnchanged
    /\ UNCHANGED previewVars

\* PreviewStep: handleGenerate(side), up to the request it sends (the
\* buttons that call it are disabled while status is 'processing')
handleGenerate(side) ==
    /\ currentStep = STEPS.PREVIEW
    /\ patientId \in patients
    /\ status # "processing"
    /\ generations < MaxGenerations
    /\ clearPolling
    /\ pollErrorCount' = 0
    /\ status' = "processing"
    /\ resultUrls' = <<>>
    /\ generateRequest' = << [ patient_id |-> patientId, foot_side |-> side,
                               outline_points |-> outlinePoints ] >>
    /\ generations' = generations + 1
    /\ generating' = generating \cup { generations + 1 }
    /\ pollLog' = [ last |-> "none", failures |-> 0 ]
    /\ UNCHANGED << currentModelUrl, inFlight, backend >>
    /\ UNCHANGED << currentStep, patients, patientId, draggingIndex, outlinePoints, edits >>
    /\ WizardUnchanged

NextWizard ==
    \/ loadPatients
    \/ \E id \in PatientIds : handleSelectPatient(id)
    \/ nextStep
    \/ prevStep
    \/ restart
    \/ \E size \in SizeValues : handleApplySize(size)
    \/ \E index \in OutlineDragIndexes : outlineHandleMouseDown(index)
    \/ \E pos \in OutlinePointerPositions : outlineHandleMouseMove(pos)
    \/ outlineHandleMouseUp
    \/ \E side \in FootSides : handleGenerate(side)

SpecWizard == Init /\ [][NextWizard]_vars

(***************************************************************************)
(* The solid kernel: the hollow shell constructor and the lattice unit     *)
(* cell (core/geometry_v4.py and core/xcell_3d.py, as the prompts give     *)
(* them)                                                                   *)
(***************************************************************************)
\* outer_mesh=None
None == << >>
\* a mesh, by the number of its vertices and by what produced it
Mesh(n, producedBy) == [ vertices |-> n, producedBy |-> producedBy ]
\* the outer_mesh arguments explored
OuterMeshes == { None, Mesh(0, "upstream"), Mesh(8, "upstream"), Mesh(12, "upstream") }
\* cell sizes and strut radii explored (mm * Unit); the 3 mm cell has its
\* corners 2.598 mm from its center
CellSizes == { 3 * Unit, 4 * Unit, 5 * Unit, 6 * Unit }
StrutRadii == { Unit \div 5, Unit, 2597, 2598, 3 * Unit, 6 * Unit }

\* _build_solid_from_height_maps(...): a solid of the outline and the height maps
build_solid_from_height_maps(which) == Mesh(24, which)

\* generate_hollow_shell before the change: the outer solid is always built
generate_hollow_shell_rebuilding(outer_mesh) ==
    [ outer_mesh |-> outer_mesh,
      outer_solid |-> build_solid_from_height_maps("outer"),
      inner_solid |-> build_solid_from_height_maps("inner"),
      built |-> { "outer", "inner" } ]

\* generate_hollow_shell(..., outer_mesh): the solids it works on and the
\* solids it built from the height maps
generate_hollow_shell_solids(outer_mesh) ==
    LET reuse == outer_mesh # None /\ outer_mesh.vertices > 0
    IN  [ outer_mesh |-> outer_mesh,
          outer_solid |-> IF reuse THEN outer_mesh
                          ELSE build_solid_from_height_maps("outer"),
          inner_solid |-> build_solid_from_height_maps("inner"),
          built |-> IF reuse THEN { "inner" } ELSE { "outer", "inner" } ]

\* the corners of the cubic cell and its center
corners(cell_size) ==
    { << cx, cy, cz >> : cx \in { 0, cell_size }, cy \in { 0, cell_size }, cz \in { 0, cell_size } }
center(cell_size) == << cell_size \div 2, cell_size \div 2, cell_size \div 2 >>

\* np.linalg.norm(center - corner)
corner_to_center(cell_size, corner) ==
    LET c == center(cell_size)
        dx == c[1] - corner[1]
        dy == c[2] - corner[2]
        dz == c[3] - corner[3]
    IN  ISqrt(dx * dx + dy * dy + dz * dz)

\* strut_length = corner_to_center - strut_radius
strut_length(cell_size, strut_radius, corner) ==
    corner_to_center(cell_size, corner) - strut_radius

\* create_3d_xcell_unit: the center sphere and the cylinders of the struts
\* that are not skipped
create_3d_xcell_unit_parts(cell_size, strut_radius) ==
    [ cell_size |-> cell_size, strut_radius |-> strut_radius,
      center_sphere |-> [ radius |-> strut_radius, at |-> center(cell_size) ],
      cylinders |-> { [ corner |-> corner, radius |-> strut_radius,
                        height |-> strut_length(cell_size, strut_radius, corner) ] :
                      corner \in { k \in corners(cell_size) :
                                     ~(strut_length(cell_size, strut_radius, k) < Unit \div 1000) } } ]

\* what the kernel never writes
KernelUnchanged ==
    UNCHANGED << storeVars, xPercent, dragVars, edits, wizardVars, storeCall, presets,
                 previewVars, densified >>

generate_hollow_shell(outer_mesh) ==
    /\ hollowShell' = << generate_hollow_shell_solids(outer_mesh) >>
    /\ UNCHANGED << unitCell, bandSample >>
    /\ KernelUnchanged

create_3d_xcell_unit(cell_size, strut_radius) ==
    /\ unitCell' = << create_3d_xcell_unit_parts(cell_size, strut_radius) >>
    /\ UNCHANGED << hollowShell, bandSample >>
    /\ KernelUnchanged

NextKernel ==
    \/ \E outer_mesh \in OuterMeshes : generate_hollow_shell(outer_mesh)
    \/ \E cell_size \in CellSizes, strut_radius \in StrutRadii :
          create_3d_xcell_unit(cell_size, strut_radius)

SpecKernel == Init /\ [][NextKernel]_vars

\* C15: in every state reachable through the wizard's actions, no generation
\* request has been sent with fewer than 3 outline points
C15_RequestHasAtLeastThreeOutlinePoints ==
    generateRequest # <<>> => Len(generateRequest[1].outline_points) >= 3

\* a request has been sent for an outline that was resampled on leaving the
\* outline step
C15_Witness ==
    /\ generateRequest # <<>>
    /\ Len(generateRequest[1].outline_points) = 200

C17_StrutLengthAndSkip ==
    unitCell # <<>> =>
        LET u == unitCell[1]
        IN  /\ \A cyl \in u.cylinders :
                   cyl.height = corner_to_center(u.cell_size, cyl.corner) - u.strut_radius
            /\ \A corner \in corners(u.cell_size) :
                   corner_to_center(u.cell_size, corner) - u.strut_radius <= Unit \div 1000
                       => ~\E cyl \in u.cylinders : cyl.corner = corner

(***************************************************************************)
(* The curve band of a longitudinal arch at one sample                     *)
(***************************************************************************)
\* the Ys of the solid curve, the flat curve and the anatomical edge at a
\* cross section, the Ys of the samples and the arch x-values explored: the
\* curves of the editor can be dragged to any Y, next to each other too, and
\* the arch x-value is NaN with an all-zero detail spline
BandSolidYs == { 20008, 30 * Unit, 40 * Unit }
BandFlatYs == { 20 * Unit, 30 * Unit }
BandEdgeYs == { 10 * Unit, 50 * Unit }
BandCurrentYs == { 15 * Unit, 20 * Unit, 20004, 25 * Unit, 30 * Unit, 35 * Unit, 40 * Unit }
BandArchValues == { 0, 4 * Unit, FNaN }

\* the medial band of profileData at a sample whose two curves have a Y
\* (longitudinalArchHeight is 0 before it)
evaluateArchBand(solidY, flatY, edgeY, currentY, archV) ==
    /\ bandSample' = << [ solidY |-> solidY, flatY |-> flatY, edgeY |-> edgeY,
                          currentY |-> currentY, archV |-> archV,
                          contribution |-> archBand(TRUE, << solidY >>, << flatY >>, edgeY,
                                                    currentY, 0, 0, 0, archV, 0) ] >>
    /\ UNCHANGED << hollowShell, unitCell >>
    /\ KernelUnchanged

NextBand ==
    \E solidY \in BandSolidYs, flatY \in BandFlatYs, edgeY \in BandEdgeYs,
       currentY \in BandCurrentYs, archV \in BandArchValues :
        evaluateArchBand(solidY, flatY, edgeY, currentY, archV)

SpecBand == Init /\ [][NextBand]_vars

\* C19: when both curves of a longitudinal arch have a Y at the sample's x,
\* the contribution is the full arch x-value for a sample between the flat
\* curve and the anatomical edge (inclusive), x-value * smoothstep(t) with
\* t = (y - solidY) / (flatY - solidY) for 0 <= t <= 1, and 0 elsewhere; it is
\* the full value on the flat curve and 0 on the solid curve
C19_CurveBandContribution ==
    bandSample # <<>> =>
        LET b == bandSample[1]
            inFlat == b.currentY >= Min2(b.flatY, b.edgeY) /\ b.currentY <= Max2(b.flatY, b.edgeY)
            denom == b.flatY - b.solidY
            t == FDiv(b.currentY - b.solidY, denom)
        IN  /\ b.contribution =
                  IF inFlat THEN b.archV
                  ELSE IF denom # 0 /\ t >= 0 /\ t <= Unit THEN FMul(b.archV, smoothstep(t))
                  ELSE 0
            /\ b.currentY = b.flatY => b.contribution = b.archV
            /\ (b.currentY = b.solidY /\ ~inFlat) => b.contribution = 0

\* C20: after any drag of the first or last point of medialFlat (lateralFlat)
\* and after every regeneration by createFlatCurve, that end point lies on the
\* outline edge, wherever the pointer is: the outline crosses its x, and its y
\* is the outline's minimum (maximum) y there
C20_FlatEndsSnappedWhereverThePointerIs ==
    archCurves # <<>> =>
        LET c == archCurves[1]
        IN  /\ \A e \in EndsOf(c.medialFlat) :
                  LET b == getOutlineYAtX(outlinePoints, e.x)
                  IN  b # <<>> /\ e.y = b[1]
            /\ \A e \in EndsOf(c.lateralFlat) :
                  LET b == getOutlineYAtX(outlinePoints, e.x)
                  IN  b # <<>> /\ e.y = b[2]

(***************************************************************************)
(* The store functions called directly (lib/store.ts)                      *)
(***************************************************************************)
\* the width lines the landmark editor drags
WidthIds == { "ray1_boundary", "ray5_boundary" }
\* Math.max(0, Math.min(100, percent)) of the landmark editor; percent is
\* 0 / 0 = NaN where the outline has no width under the pointer
WidthPercents == { 0, 30 * Unit, 100 * Unit, FNaN }
\* partial settings handed to updateArchSettings
SettingsPartials ==
    { [ medial_height |-> 4 * Unit ],
      [ transverse_start |-> 40 * Unit, transverse_peak |-> 55 * Unit,
        transverse_end |-> 70 * Unit ],
      [ medial_y_start |-> 50 * Unit ] }

\* store calls explored from the initial store
MaxStoreCalls == 4

\* what the store functions below never write; the calls made are counted
StoreCallUnchanged ==
    /\ edits < MaxStoreCalls
    /\ edits' = edits + 1
    /\ UNCHANGED << activeFootSide, outlinePoints, xPercent, dragVars, currentStep,
                    patients, draggingIndex, generateRequest, hollowShell, unitCell,
                    bandSample, previewVars, densified >>

\* the same, with the partial computed from the config before the update
updateWidthConfigStale(id, percent) ==
    /\ widthConfig' = [ widthConfig EXCEPT ![id] = percent ]
    /\ LET ray1 == widthConfig.ray1_boundary
           ray5 == widthConfig.ray5_boundary
           newSettingsPartial ==
               [ medial_y_start |-> FAdd(ray1, 0 - 5 * Unit),
                 lateral_y_end |-> FAdd(ray5, 5 * Unit),
                 transverse_y_start |-> FAdd(ray5, 0 - 5 * Unit),
                 transverse_y_end |-> FAdd(ray1, 5 * Unit) ]
       IN  /\ archSettingsRight' = Merge(archSettingsRight, newSettingsPartial)
           /\ archSettingsLeft' = Merge(archSettingsLeft, newSettingsPartial)
    /\ storeCall' = << [ op |-> "updateWidthConfig", id |-> id, percent |-> percent ] >>
    /\ UNCHANGED << baseThickness, heelCupHeight, medialWallHeight, medialWallPeakX,
                    lateralWallHeight, lateralWallPeakX, landmarkConfig, archCurves,
                    patientId, presets >>
    /\ StoreCallUnchanged

\* updateWidthConfig(id, percent)
updateWidthConfig(id, percent) ==
    /\ widthConfig' = [ widthConfig EXCEPT ![id] = percent ]
    /\ LET newWidthConfig == [ widthConfig EXCEPT ![id] = percent ]
           ray1 == newWidthConfig.ray1_boundary
           ray5 == newWidthConfig.ray5_boundary
           newSettingsPartial ==
               [ medial_y_start |-> FAdd(ray1, 0 - 5 * Unit),
                 lateral_y_end |-> FAdd(ray5, 5 * Unit),
                 transverse_y_start |-> FAdd(ray5, 0 - 5 * Unit),
                 transverse_y_end |-> FAdd(ray1, 5 * Unit) ]
       IN  /\ archSettingsRight' = Merge(archSettingsRight, newSettingsPartial)
           /\ archSettingsLeft' = Merge(archSettingsLeft, newSettingsPartial)
    /\ storeCall' = << [ op |-> "updateWidthConfig", id |-> id, percent |-> percent ] >>
    /\ UNCHANGED << baseThickness, heelCupHeight, medialWallHeight, medialWallPeakX,
                    lateralWallHeight, lateralWallPeakX, landmarkConfig, archCurves,
                    patientId, presets >>
    /\ StoreCallUnchanged

\* the same, writing the partial to both sides
updateArchSettingsBothSides(side, settings) ==
    /\ archSettingsRight' = Merge(archSettingsRight, settings)
    /\ archSettingsLeft' = Merge(archSettingsLeft, settings)
    /\ storeCall' = << [ op |-> "updateArchSettings", side |-> side, settings |-> settings ] >>
    /\ UNCHANGED << baseThickness, heelCupHeight, medialWallHeight, medialWallPeakX,
                    lateralWallHeight, lateralWallPeakX, landmarkConfig, widthConfig,
                    archCurves, patientId, presets >>
    /\ StoreCallUnchanged

\* updateArchSettings(side, settings), called with a partial settings object
updateArchSettingsPartial(side, settings) ==
    /\ updateArchSettings(side, Merge(SettingsOf(side), settings))
    /\ storeCall' = << [ op |-> "updateArchSettings", side |-> side, settings |-> settings ] >>
    /\ UNCHANGED << baseThickness, heelCupHeight, medialWallHeight, medialWallPeakX,
                    lateralWallHeight, lateralWallPeakX, landmarkConfig, widthConfig,
                    archCurves, patientId, presets >>
    /\ StoreCallUnchanged

\* JSON has no NaN and no Infinity: JSON.stringify writes them as null
JsonNull == FNaN + 1
JsonNumber(v) == IF IsFinite(v) THEN v ELSE JsonNull
JsonNumbers(r) == [ k \in DOMAIN r |-> JsonNumber(r[k]) ]

\* the arch settings as JSON.stringify writes them (fields that are undefined
\* are left out, and are undefined again after JSON.parse)
JsonSettings(r) ==
    [ k \in DOMAIN r |->
        IF k \in { "medial_detail_enabled", "transverse_detail_enabled" } THEN r[k]
        ELSE IF k \in { "medial_detail_heights", "transverse_detail_heights" }
             THEN JsonNumbers(r[k])
        ELSE JsonNumber(r[k]) ]

\* the curves as JSON.stringify writes them (null stays null)
JsonCurves(c) ==
    IF c = <<>> THEN <<>>
    ELSE << [ name \in DOMAIN c[1] |->
                [ k \in 1..Len(c[1][name]) |->
                    Pt(JsonNumber(c[1][name][k].x), JsonNumber(c[1][name][k].y)) ] ] >>

\* the params of a preset, of the store fields the model holds
PresetParams ==
    [ baseThickness |-> baseThickness, heelCupHeight |-> heelCupHeight,
      medialWallHeight |-> medialWallHeight, medialWallPeakX |-> medialWallPeakX,
      lateralWallHeight |-> lateralWallHeight, lateralWallPeakX |-> lateralWallPeakX,
      archSettingsRight |-> archSettingsRight, archSettingsLeft |-> archSettingsLeft,
      landmarkConfig |-> landmarkConfig, widthConfig |-> widthConfig,
      archCurves |-> archCurves ]

\* JSON.parse(JSON.stringify(preset)).params
JsonRoundTrip(params) ==
    [ baseThickness |-> JsonNumber(params.baseThickness),
      heelCupHeight |-> JsonNumber(params.heelCupHeight),
      medialWallHeight |-> JsonNumber(params.medialWallHeight),
      medialWallPeakX |-> JsonNumber(params.medialWallPeakX),
      lateralWallHeight |-> JsonNumber(params.lateralWallHeight),
      lateralWallPeakX |-> JsonNumber(params.lateralWallPeakX),
      archSettingsRight |-> JsonSettings(params.archSettingsRight),
      archSettingsLeft |-> JsonSettings(params.archSettingsLeft),
      landmarkConfig |-> JsonNumbers(params.landmarkConfig),
      widthConfig |-> JsonNumbers(params.widthConfig),
      archCurves |-> JsonCurves(params.archCurves) ]

\* patientIdArg ?? state.patientId
PidOf(patientIdArg) == IF patientIdArg = NoPatient THEN patientId ELSE patientIdArg

\* savePatientPreset(patientIdArg); stored is whether localStorage.setItem
\* returns (TRUE) or throws (FALSE). The item kept is what JSON.parse reads
\* back from the text stored, with the params as they were at save time.
savePatientPreset(patientIdArg, stored) ==
    LET pid == PidOf(patientIdArg)
        ok == pid # NoPatient /\ stored
    IN  /\ presets' = IF ok
                      THEN [ presets EXCEPT ![pid] =
                               << [ params |-> JsonRoundTrip(PresetParams),
                                    savedParams |-> PresetParams ] >> ]
                      ELSE presets
        /\ storeCall' = << [ op |-> "savePatientPreset", pid |-> pid, result |-> ok ] >>
        /\ UNCHANGED << baseThickness, heelCupHeight, medialWallHeight, medialWallPeakX,
                        lateralWallHeight, lateralWallPeakX, landmarkConfig, widthConfig,
                        archSettingsRight, archSettingsLeft, archCurves, patientId >>
        /\ StoreCallUnchanged

\* the set({...}) of loadPatientPreset for the preset of pid, if there is one
LoadPreset(pid) ==
    IF pid # NoPatient /\ presets[pid] # <<>>
    THEN LET p == presets[pid][1].params
         IN  /\ baseThickness' = p.baseThickness
             /\ heelCupHeight' = p.heelCupHeight
             /\ medialWallHeight' = p.medialWallHeight
             /\ medialWallPeakX' = p.medialWallPeakX
             /\ lateralWallHeight' = p.lateralWallHeight
             /\ lateralWallPeakX' = p.lateralWallPeakX
             /\ archSettingsRight' = p.archSettingsRight
             /\ archSettingsLeft' = p.archSettingsLeft
             /\ landmarkConfig' = p.landmarkConfig
             /\ widthConfig' = p.widthConfig
             /\ archCurves' = p.archCurves
    ELSE UNCHANGED << baseThickness, heelCupHeight, medialWallHeight, medialWallPeakX,
                      lateralWallHeight, lateralWallPeakX, landmarkConfig, widthConfig,
                      archSettingsRight, archSettingsLeft, archCurves >>

\* loadPatientPreset(patientIdArg)
loadPatientPreset(patientIdArg) ==
    LET pid == PidOf(patientIdArg)
    IN  /\ LoadPreset(pid)
        /\ storeCall' = << [ op |-> "loadPatientPreset", pid |-> pid,
                             result |-> (pid # NoPatient /\ presets[pid] # <<>>) ] >>
        /\ UNCHANGED << patientId, presets >>
        /\ StoreCallUnchanged

\* setPatientId(id): the preset of the patient is loaded if there is one
setPatientId(id) ==
    /\ patientId' = id
    /\ LoadPreset(id)
    /\ storeCall' = << [ op |-> "setPatientId", pid |-> id ] >>
    /\ UNCHANGED presets
    /\ StoreCallUnchanged

NextStore ==
    \/ \E id \in WidthIds, percent \in WidthPercents : updateWidthConfig(id, percent)
    \/ \E side \in FootSides, settings \in SettingsPartials :
          updateArchSettingsPartial(side, settings)
    \/ \E id \in PatientIds : setPatientId(id)
    \/ \E patientIdArg \in PatientIds \cup { NoPatient }, stored \in BOOLEAN :
          savePatientPreset(patientIdArg, stored)
    \/ \E patientIdArg \in PatientIds \cup { NoPatient } : loadPatientPreset(patientIdArg)

SpecStore == Init /\ [][NextStore]_vars

\* the store fields other than widthConfig and the two arch settings
OtherStoreFields ==
    << baseThickness, heelCupHeight, medialWallHeight, medialWallPeakX, lateralWallHeight,
       lateralWallPeakX, activeFootSide, landmarkConfig, archCurves, outlinePoints,
       currentStep, patients, patientId >>

\* the four fields updateWidthConfig derives from the width lines
YBandFields == { "medial_y_start", "lateral_y_end", "transverse_y_start", "transverse_y_end" }

\* C21: updateWidthConfig(id, p) sets widthConfig[id] to p and, in the arch
\* settings of both feet, medial_y_start = ray1 - 5, lateral_y_end = ray5 + 5,
\* transverse_y_start = ray5 - 5 and transverse_y_end = ray1 + 5 with ray1 and
\* ray5 read from the updated config; every other field of the settings and
\* of the store keeps its value.
C21_UpdateWidthConfigEffect ==
    [][ (storeCall' # <<>> /\ storeCall'[1].op = "updateWidthConfig") =>
          LET call == storeCall'[1]
              ray1 == widthConfig'.ray1_boundary
              ray5 == widthConfig'.ray5_boundary
          IN  /\ widthConfig' = [ widthConfig EXCEPT ![call.id] = call.percent ]
              /\ \A side \in FootSides :
                    LET old == SettingsOf(side)
                        new == IF side = "right" THEN archSettingsRight'
                                                 ELSE archSettingsLeft'
                    IN  /\ new.medial_y_start = FAdd(ray1, 0 - 5 * Unit)
                        /\ new.lateral_y_end = FAdd(ray5, 5 * Unit)
                        /\ new.transverse_y_start = FAdd(ray5, 0 - 5 * Unit)
                        /\ new.transverse_y_end = FAdd(ray1, 5 * Unit)
                        /\ DOMAIN new = DOMAIN old
                        /\ \A k \in DOMAIN old \ YBandFields : new[k] = old[k]
              /\ UNCHANGED OtherStoreFields ]_vars

\* a width line has been moved after a y band had been set by hand
C21_Witness ==
    /\ storeCall # <<>>
    /\ storeCall[1].op = "updateWidthConfig"
    /\ storeCall[1].id = "ray1_boundary"
    /\ widthConfig.ray1_boundary = 30 * Unit
    /\ archSettingsRight.medial_y_start = 25 * Unit
    /\ archSettingsLeft.transverse_y_end = 35 * Unit
    /\ archSettingsLeft.medial_height = 4 * Unit

\* C22: updateArchSettings(side, partial) changes, in the settings of that
\* side, only the fields named in partial, to the values given; the settings
\* of the other side and every other store field keep their values.
C22_UpdateArchSettingsFrame ==
    [][ (storeCall' # <<>> /\ storeCall'[1].op = "updateArchSettings") =>
          LET call == storeCall'[1]
              old == SettingsOf(call.side)
              new == IF call.side = "right" THEN archSettingsRight' ELSE archSettingsLeft'
          IN  /\ DOMAIN new = DOMAIN old
              /\ \A k \in DOMAIN old :
                    new[k] = IF k \in DOMAIN call.settings THEN call.settings[k] ELSE old[k]
              /\ call.side = "right" => archSettingsLeft' = archSettingsLeft
              /\ call.side = "left" => archSettingsRight' = archSettingsRight
              /\ widthConfig' = widthConfig
              /\ UNCHANGED OtherStoreFields ]_vars

\* the left settings have been given three fields while the right ones differ
C22_Witness ==
    /\ storeCall # <<>>
    /\ storeCall[1].op = "updateArchSettings"
    /\ storeCall[1].side = "left"
    /\ DOMAIN storeCall[1].settings = { "transverse_start", "transverse_peak", "transverse_end" }
    /\ archSettingsLeft.transverse_peak = 55 * Unit
    /\ archSettingsRight.transverse_peak = 59 * Unit
    /\ archSettingsRight.medial_height = 4 * Unit

(***************************************************************************)
(* C23: the transverse polygon and the arch settings                       *)
(***************************************************************************)
\* x as a percentage of the outline length b, clamped to 0..100
ClampedPercent(x, b) == Max2(0, Min2(100 * Unit, FDiv(x - b.minX, b.width) * 100))

\* settings s carry min X, centroid X and max X of the polygon
TransverseSynced(s, points, b) ==
    LET xs == [ k \in 1..Len(points) |-> points[k].x ]
    IN  /\ s.transverse_start = ClampedPercent(SeqMin(xs), b)
        /\ s.transverse_peak = ClampedPercent(SeqSum(xs) \div Len(xs), b)
        /\ s.transverse_end = ClampedPercent(SeqMax(xs), b)

\* a step that ends an edit of the transverse polygon: the mouse is released
\* after a drag of the polygon, or the polygon is reset
TransverseEditEnds ==
    /\ archCurves # <<>>
    /\ \/ draggingCurve = "transverse" /\ draggingCurve' = NoDrag
       \/ edits' # edits /\ draggingCurve = NoDrag /\ draggingCurve' = NoDrag

\* C23: after a step that ends an edit of the transverse polygon (mouse up
\* after a point or whole-curve drag, or resetTransverse), transverse_start,
\* transverse_peak and transverse_end of both archSettingsRight and
\* archSettingsLeft are the polygon's minimum X, centroid X and maximum X as
\* percentages of the outline length, clamped to 0..100.
C23_BothSidesFollowTransversePolygon ==
    [][ TransverseEditEnds =>
          /\ TransverseSynced(archSettingsRight', archCurves'[1].transverse, bounds)
          /\ TransverseSynced(archSettingsLeft', archCurves'[1].transverse, bounds) ]_vars

\* the same for the settings of the foot side being edited only
ActiveSideFollowsTransversePolygon ==
    [][ TransverseEditEnds =>
          TransverseSynced(IF activeFootSide = "right" THEN archSettingsRight'
                                                       ELSE archSettingsLeft',
                           archCurves'[1].transverse, bounds) ]_vars

(***************************************************************************)
(* PreviewStep: the generation request and the polling of its task         *)
(***************************************************************************)
\* pollErrorCount.current is only compared with 3: the count kept stops here
MaxPollErrors == 4

\* status requests that have not returned, over all tasks
InFlightTotal == SeqSum(inFlight)

\* what the preview's asynchronous steps never write
PreviewUnchanged ==
    UNCHANGED << storeVars, xPercent, dragVars, edits, wizardVars, hollowShell, unitCell,
                 bandSample, storeCall, presets, densified >>

\* handleGenerate after `await generateInsole(...)` has returned a task id:
\* the timer is started and pollTask is called at once
generateInsoleResolves(t) ==
    /\ t \in generating
    /\ InFlightTotal < MaxInFlight
    /\ generating' = generating \ { t }
    /\ backend' = [ backend EXCEPT ![t] = "processing" ]
    /\ pollingInterval' = t
    /\ timers' = timers \cup { t }
    /\ inFlight' = [ inFlight EXCEPT ![t] = @ + 1 ]
    /\ UNCHANGED << status, pollErrorCount, resultUrls, currentModelUrl, generations, pollLog >>
    /\ PreviewUnchanged

\* handleGenerate's catch: generateInsole threw
generateInsoleRejects(t) ==
    /\ t \in generating
    /\ generating' = generating \ { t }
    /\ status' = "error"
    /\ UNCHANGED << pollErrorCount, pollingInterval, resultUrls, currentModelUrl, timers,
                    inFlight, backend, generations, pollLog >>
    /\ PreviewUnchanged

\* the timer of task t fires: pollTask sends a status request
pollTask(t) ==
    /\ t \in timers
    /\ InFlightTotal < MaxInFlight
    /\ inFlight' = [ inFlight EXCEPT ![t] = @ + 1 ]
    /\ UNCHANGED << status, pollErrorCount, pollingInterval, resultUrls, currentModelUrl,
                    timers, generating, backend, generations, pollLog >>
    /\ PreviewUnchanged

\* the backend finishes task t
backendFinishes(t, outcome) ==
    /\ backend[t] = "processing"
    /\ backend' = [ backend EXCEPT ![t] = outcome ]
    /\ UNCHANGED << status, pollErrorCount, pollingInterval, resultUrls, currentModelUrl,
                    timers, generating, inFlight, generations, pollLog >>
    /\ PreviewUnchanged

\* pollTask of task t after `await getTaskStatus(taskId)` has returned
getTaskStatusResolves(t) ==
    /\ inFlight[t] > 0
    /\ inFlight' = [ inFlight EXCEPT ![t] = @ - 1 ]
    /\ pollErrorCount' = 0
    /\ pollLog' = [ last |-> "ok", failures |-> 0 ]
    /\ IF backend[t] = "completed"
       THEN /\ clearPolling
            /\ status' = "completed"
            /\ resultUrls' = << t >>
            /\ currentModelUrl' = << t >>
       ELSE IF backend[t] = "failed"
       THEN /\ clearPolling
            /\ status' = "error"
            /\ UNCHANGED << resultUrls, currentModelUrl >>
       ELSE UNCHANGED << status, pollingInterval, timers, resultUrls, currentModelUrl >>
    /\ UNCHANGED << generating, backend, generations >>
    /\ PreviewUnchanged

\* pollTask's catch: the status request of task t failed; status turns to
\* 'error' once `limit` failures have been counted
pollTaskCatch(t, limit) ==
    /\ inFlight' = [ inFlight EXCEPT ![t] = @ - 1 ]
    /\ pollErrorCount' = Min2(MaxPollErrors, pollErrorCount + 1)
    /\ pollLog' = [ last |-> "fail", failures |-> Min2(MaxPollErrors, pollLog.failures + 1) ]
    /\ IF pollErrorCount + 1 >= limit
       THEN clearPolling /\ status' = "error"
       ELSE UNCHANGED << status, pollingInterval, timers >>
    /\ UNCHANGED << resultUrls, currentModelUrl, generating, backend, generations >>
    /\ PreviewUnchanged

\* the same, giving up after two failures
getTaskStatusRejectsAfterTwo(t) ==
    /\ inFlight[t] > 0
    /\ pollTaskCatch(t, 2)

\* pollTask of task t after `await getTaskStatus(taskId)` has thrown
getTaskStatusRejects(t) ==
    /\ inFlight[t] > 0
    /\ pollTaskCatch(t, 3)

\* the preview screen reached through the wizard, the requests' answers in
\* every order
NextPreview ==
    \/ loadPatients
    \/ \E id \in PatientIds : handleSelectPatient(id)
    \/ nextStep
    \/ \E side \in FootSides : handleGenerate(side)
    \/ \E t \in TaskIds : generateInsoleResolves(t)
    \/ \E t \in TaskIds : generateInsoleRejects(t)
    \/ \E t \in TaskIds : pollTask(t)
    \/ \E t \in TaskIds, outcome \in { "completed", "failed" } : backendFinishes(t, outcome)
    \/ \E t \in TaskIds : getTaskStatusResolves(t)
    \/ \E t \in TaskIds : getTaskStatusRejects(t)

SpecPreview == Init /\ [][NextPreview]_vars

\* the generation has ended
Done == { "completed", "error" }

\* C24: once status has become 'completed' or 'error' it keeps its value until
\* the next handleGenerate, whichever answers of status requests still in
\* flight arrive, and in whichever order
C24_FinalStatusKept ==
    [][ (status \in Done /\ status' # status) => generations' = generations + 1 ]_vars

\* a step that handles the answer of a status request
StatusAnswered == \E t \in TaskIds : inFlight'[t] < inFlight[t]

\* C25: a failed status request turns status to 'error' only as the third
\* failed one in a row, with no successful one in between; after the first
\* and the second failure in a row the status and the polling timer are left
\* as they are (status stays 'processing', polling goes on); every successful
\* answer sets the failure count back to 0
C25_ErrorOnlyAfterThreeFailuresInARow ==
    [][ StatusAnswered =>
          /\ pollLog'.last = "fail" /\ status' = "error" /\ status # "error"
                => pollLog'.failures >= 3
          /\ pollLog'.last = "fail" /\ pollLog'.failures >= 3
                => status' = "error" /\ pollingInterval' = NoTimer
          /\ pollLog'.last = "fail" /\ pollLog'.failures \in { 1, 2 }
                => /\ status' = status
                   /\ pollingInterval' = pollingInterval
                   /\ timers' = timers
                   /\ pollErrorCount' = pollLog'.failures
          /\ pollLog'.last = "ok" => pollErrorCount' = 0 ]_vars

\* the third failure in a row has ended the first generation while its task
\* was still running
C25_Witness ==
    /\ status = "error"
    /\ pollLog = [ last |-> "fail", failures |-> 3 ]
    /\ pollErrorCount = 3
    /\ generations = 1
    /\ pollingInterval = NoTimer
    /\ backend[1] = "processing"

\* C27: whenever status is 'completed', the result URLs offered and
\* currentModelUrl are those of the task started by the most recent
\* handleGenerate; and the answer of a status request for an earlier
\* generation's task neither clears the polling timer of the current
\* generation nor sets its status or results
C27_ResultsOfCurrentGeneration ==
    [][ /\ status' = "completed"
            => resultUrls' = << generations' >> /\ currentModelUrl' = << generations' >>
        /\ \A t \in TaskIds :
              inFlight'[t] < inFlight[t] /\ t # generations
                  => UNCHANGED << pollingInterval, timers, status, resultUrls >> ]_vars

\* every generateInsole call and every status request is answered (with a
\* result or an error), every running timer keeps firing, and the backend
\* finishes every task it has started
SpecPreviewFair ==
    /\ SpecPreview
    /\ \A t \in TaskIds :
          /\ WF_vars(generateInsoleResolves(t) \/ generateInsoleRejects(t))
          /\ WF_vars(getTaskStatusResolves(t) \/ getTaskStatusRejects(t))
          /\ SF_vars(pollTask(t))
          /\ WF_vars(\E outcome \in { "completed", "failed" } : backendFinishes(t, outcome))

\* C26: when every request is answered and the backend finishes its tasks, a
\* generation that is 'processing' reaches 'completed' or 'error' with the
\* polling timer cleared, and from some point on no timer of its task runs
\* and no status request is sent for it any more
C26_PollingEnds ==
    \A t \in TaskIds :
        (status = "processing" /\ generations = t)
            ~> ( /\ status \in Done
                 /\ pollingInterval = NoTimer
                 /\ [](t \notin timers /\ inFlight[t] = 0) )

(***************************************************************************)
(* geometry-utils: the densify functions with any number of subdivisions   *)
(***************************************************************************)
\* subdivisions and control points put to the densify functions
SubdivisionValues == { 1, 2, 3, 8 }
MaxControlPoints == 4
ControlPointValues == { Pt(0, 20 * Unit), Pt(20 * Unit, 4 * Unit), Pt(33333, 0 - 1) }
ControlPointLists == UNION { [ 1..n -> ControlPointValues ] : n \in 0..MaxControlPoints }

\* one Catmull-Rom coordinate at t = j / subdivisions
CatmullRomAt(p0, p1, p2, p3, j, subdivisions) ==
    LET s == subdivisions
    IN  (2 * s * s * s * p1 + s * s * j * (p2 - p0)
           + s * j * j * (2 * p0 - 5 * p1 + 4 * p2 - p3)
           + j * j * j * (3 * p1 - p0 - 3 * p2 + p3)) \div (2 * s * s * s)

CatmullRomPtAt(q0, q1, q2, q3, j, subdivisions) ==
    Pt(CatmullRomAt(q0.x, q1.x, q2.x, q3.x, j, subdivisions),
       CatmullRomAt(q0.y, q1.y, q2.y, q3.y, j, subdivisions))

\* densifyClosedPolygon(points, subdivisions)
densifyClosedPolygonBy(points, subdivisions) ==
    IF Len(points) < 3 THEN points
    ELSE LET n == Len(points)
             at(k) == points[(k % n) + 1]
         IN  [ m \in 1..(subdivisions * n) |->
                 LET i == (m - 1) \div subdivisions
                     j == (m - 1) % subdivisions
                 IN  CatmullRomPtAt(at(i - 1 + n), at(i), at(i + 1), at(i + 2), j,
                                    subdivisions) ]

\* the same without the final `result.push(points[points.length - 1])`
densifyOpenCurveWithoutEndpoint(points, subdivisions) ==
    IF Len(points) < 2 THEN points
    ELSE LET n == Len(points)
             extended == << points[1] >> \o points \o << points[n] >>
         IN  [ m \in 1..(subdivisions * (n - 1)) |->
                 LET i == (m - 1) \div subdivisions + 1
                     j == (m - 1) % subdivisions
                 IN  CatmullRomPtAt(extended[i], extended[i + 1], extended[i + 2],
                                    extended[i + 3], j, subdivisions) ]

\* densifyOpenCurve(points, subdivisions)
densifyOpenCurveBy(points, subdivisions) ==
    IF Len(points) < 2 THEN points
    ELSE LET n == Len(points)
             extended == << points[1] >> \o points \o << points[n] >>
         IN  [ m \in 1..(subdivisions * (n - 1) + 1) |->
                 IF m = subdivisions * (n - 1) + 1 THEN points[n]
                 ELSE LET i == (m - 1) \div subdivisions + 1
                          j == (m - 1) % subdivisions
                      IN  CatmullRomPtAt(extended[i], extended[i + 1], extended[i + 2],
                                         extended[i + 3], j, subdivisions) ]

\* a call of both functions on the same control points
densify(points, subdivisions) ==
    /\ densified' = << [ points |-> points, subdivisions |-> subdivisions,
                         open |-> densifyOpenCurveBy(points, subdivisions),
                         closed |-> densifyClosedPolygonBy(points, subdivisions) ] >>
    /\ UNCHANGED << storeVars, xPercent, dragVars, edits, wizardVars, hollowShell, unitCell,
                    bandSample, storeCall, presets, previewVars >>

NextDensify ==
    \E points \in ControlPointLists, subdivisions \in SubdivisionValues :
        densify(points, subdivisions)

SpecDensify == Init /\ [][NextDensify]_vars

\* C28: densifyOpenCurve on N >= 2 control points with s subdivisions returns
\* (N - 1) * s + 1 points, and densifyClosedPolygon on N >= 3 control points
\* returns N * s points; in both results the element at (0-based) index k * s
\* is control point k
C28_DensifyKeepsControlPoints ==
    densified # <<>> =>
        LET d == densified[1]
            n == Len(d.points)
            s == d.subdivisions
        IN  /\ n >= 2 =>
                 /\ Len(d.open) = (n - 1) * s + 1
                 /\ \A k \in 0..(n - 1) : d.open[k * s + 1] = d.points[k + 1]
            /\ n >= 3 =>
                 /\ Len(d.closed) = n * s
                 /\ \A k \in 0..(n - 1) : d.closed[k * s + 1] = d.points[k + 1]

\* four distinct control points densified with three subdivisions, the spline
\* leaving the control polygon between them
C28_Witness ==
    /\ densified # <<>>
    /\ Len(densified[1].points) = 4
    /\ densified[1].subdivisions = 3
    /\ densified[1].points[1] # densified[1].points[2]
    /\ densified[1].points[2] # densified[1].points[3]
    /\ Len(densified[1].open) = 10
    /\ Len(densified[1].closed) = 12
    /\ densified[1].open[2] # densified[1].points[1]

(***************************************************************************)
(* C29: the left foot as the mirror image of the right foot                *)
(***************************************************************************)
\* two heights are the same up to the rounding of the arithmetic (0.05 mm)
SameHeight(a, b) ==
    \/ IsNaN(a) /\ IsNaN(b)
    \/ ~IsNaN(a) /\ ~IsNaN(b) /\ Abs(a - b) <= Unit \div 20

\* C29: for the same arch settings and the same curves, at every cross
\* section the height of the left foot at sample i is the height of the right
\* foot at sample 200 - i
C29_LeftFootMirrorsRightFoot ==
    LET rightProfile == profileDataFor(archSettings, TRUE, xPercent)
        leftProfile == profileDataFor(archSettings, FALSE, xPercent)
    IN  \A i \in 0..resolution :
           LET r == rightProfile[resolution - i]
               l == leftProfile[i]
           IN  SameHeight(l.h, r.h)

(***************************************************************************)
(* C30: a preset saved and loaded again                                    *)
(***************************************************************************)
\* the store fields that are not part of a preset
NonPresetStoreFields ==
    << activeFootSide, outlinePoints, currentStep, patients, patientId >>

\* C30: when loadPatientPreset(pid) returns true after savePatientPreset(pid)
\* returned true, whatever store edits were made in between, the preset
\* fields have the values they had at save time and every other store field
\* is left as it was; when savePatientPreset or loadPatientPreset returns
\* false, the store is left as it was
C30_PresetRoundTrip ==
    [][ (storeCall' # <<>> /\ storeCall'[1].op \in { "savePatientPreset", "loadPatientPreset" }) =>
          LET call == storeCall'[1]
          IN  /\ (call.op = "loadPatientPreset" /\ call.result)
                    => /\ presets[call.pid] # <<>>
                       /\ PresetParams' = presets[call.pid][1].savedParams
                       /\ UNCHANGED NonPresetStoreFields
              /\ ~call.result => UNCHANGED << storeVars, currentStep, patients, patientId >> ]_vars

=============================================================================
